---- MODULE Spec2Model ----
(***************************************************************************)
(* Model of obsidian-tasks-tui: the task codec (ParseTask), the document   *)
(* scanner (ParseFile), the vault index (ScanDailyNotes), the mutators     *)
(* (ToggleDone, DeleteTask, CreateTask, UpdateTaskLine) of parser.go and   *)
(* the sidebar UI of ui.go.                                                *)
(*                                                                         *)
(* Text is a sequence of characters, each character a string.  The two     *)
(* emoji markers are the characters "DUE" (the calendar emoji) and "DONE"  *)
(* (the check-mark emoji), the tab and the carriage return the characters  *)
(* "TAB" and "CR".  A ten character date text YYYY-MM-DD is one            *)
(* character of DateChars: "d1".."d9" are the texts of the calendar days   *)
(* 1..9 and "dBad" is a text of the same shape that is no calendar date    *)
(* (2026-13-45).  A date text is never written directly after a word       *)
(* character or "#", so the tag pattern never cuts a date text in two.     *)
(* A time.Time is a day number, 0 being the zero time: the day of UTC on    *)
(* whose midnight the time lies.  The variable zone tells whether the      *)
(* program runs behind UTC, where a time with the local location prints    *)
(* as the day before its day number.                                       *)
(*                                                                         *)
(* The content of a file is the sequence of its newline-free segments,     *)
(* strings.Split(content, "\n"): a sequence that is never empty, whose     *)
(* last element is the text after the last newline.  A missing file is     *)
(* the empty sequence.                                                     *)
(***************************************************************************)
EXTENDS Integers, Sequences, FiniteSets, TLC

\* ------------------------------------------------------------------ bounds

LogbookDays == 1
LookaheadDays == 1
MaxSteps == 2

\* time.Now() truncated to the day; the scan window is Today-LogbookDays ..
\* Today+LookaheadDays, and day 1 and day MaxDate lie outside of it.
Today == LogbookDays + 2
MaxDate == Today + LookaheadDays + 1
Dates == 1..MaxDate

\* ------------------------------------------------------------------- text

SP == " "
\* the tab and the carriage return, one character each
TAB == "TAB"
CR == "CR"
\* the characters \s of a regexp matches and strings.TrimSpace trims
White == {SP, TAB, CR}
DateStr == <<"d1", "d2", "d3", "d4", "d5", "d6", "d7", "d8", "d9">>
DateChars == {DateStr[i] : i \in 1..Len(DateStr)} \cup {"dBad"}
WordChars == {"a", "b", "x", "X", "O", "P"}

\* time.Time.Format("2006-01-02")
FormatDate(d) == DateStr[d]

\* time.Parse("2006-01-02", s): the day, or 0 when s is no calendar date
ParseDate(s) ==
  IF \E d \in 1..Len(DateStr) : DateStr[d] = s
  THEN CHOOSE d \in 1..Len(DateStr) : DateStr[d] = s
  ELSE 0

HasPrefix(s, p) == Len(s) >= Len(p) /\ SubSeq(s, 1, Len(p)) = p

\* number of leading white characters of s
LeadSpaces(s) ==
  IF \A i \in 1..Len(s) : s[i] \in White THEN Len(s)
  ELSE (CHOOSE i \in 1..Len(s) : s[i] \notin White /\ \A j \in 1..(i-1) : s[j] \in White) - 1

\* number of trailing white characters of s
TrailWhite(s) ==
  IF \A i \in 1..Len(s) : s[i] \in White THEN Len(s)
  ELSE Len(s) - (CHOOSE i \in 1..Len(s) :
                   s[i] \notin White /\ \A j \in (i+1)..Len(s) : s[j] \in White)

\* number of trailing spaces of s
TrailSpaces(s) ==
  IF \A i \in 1..Len(s) : s[i] = SP THEN Len(s)
  ELSE Len(s) - (CHOOSE i \in 1..Len(s) : s[i] # SP /\ \A j \in (i+1)..Len(s) : s[j] = SP)

TrimLeft(s) == SubSeq(s, LeadSpaces(s) + 1, Len(s))
\* strings.TrimRight(s, " ")
TrimRight(s) == SubSeq(s, 1, Len(s) - TrailSpaces(s))
\* strings.TrimSpace
TrimSpace(s) == SubSeq(TrimLeft(s), 1, Len(TrimLeft(s)) - TrailWhite(TrimLeft(s)))

\* index of the first occurrence of p in s at or after i, 0 if none
RECURSIVE IndexFrom(_, _, _)
IndexFrom(s, p, i) ==
  IF i + Len(p) - 1 > Len(s) THEN 0
  ELSE IF SubSeq(s, i, i + Len(p) - 1) = p THEN i
  ELSE IndexFrom(s, p, i + 1)

\* strings.Replace(s, old, new, 1)
ReplaceFirst(s, old, new) ==
  LET i == IndexFrom(s, old, 1)
  IN IF i = 0 THEN s
     ELSE SubSeq(s, 1, i - 1) \o new \o SubSeq(s, i + Len(old), Len(s))

\* ---------------------------------------------------------------- regexps

\* last index of the run of word characters starting at i (i-1 if none)
RECURSIVE WordRun(_, _)
WordRun(s, i) ==
  IF i <= Len(s) /\ s[i] \in WordChars THEN WordRun(s, i + 1) ELSE i - 1

\* greedy (?:/[\w]+)* from the end e of the previous segment
RECURSIVE TagSegments(_, _)
TagSegments(s, e) ==
  IF e + 2 <= Len(s) /\ s[e + 1] = "/" /\ s[e + 2] \in WordChars
  THEN TagSegments(s, WordRun(s, e + 2))
  ELSE e

\* tagRe  #[\w]+(?:/[\w]+)*  anchored at i: the end of the match, 0 if none
TagEnd(s, i) ==
  IF s[i] = "#" /\ i + 1 <= Len(s) /\ s[i + 1] \in WordChars
  THEN TagSegments(s, WordRun(s, i + 1))
  ELSE 0

\* first index at or after i that holds no white character
RECURSIVE SkipSpaces(_, _)
SkipSpaces(s, i) == IF i <= Len(s) /\ s[i] \in White THEN SkipSpaces(s, i + 1) ELSE i

\* dueDateRe / doneDateRe  <marker>\s*(\d{4}-\d{2}-\d{2})  anchored at i
MarkerEnd(s, i, marker) ==
  LET j == SkipSpaces(s, i + 1)
  IN IF s[i] = marker /\ j <= Len(s) /\ s[j] \in DateChars THEN j ELSE 0

\* end of the match of regexp re anchored at i, 0 if none
MatchEnd(re, s, i) ==
  IF re = "tagRe" THEN TagEnd(s, i)
  ELSE IF re = "dueDateRe" THEN MarkerEnd(s, i, "DUE")
  ELSE MarkerEnd(s, i, "DONE")

\* Regexp.FindAllStringIndex: the leftmost non-overlapping matches <<from, to>>
RECURSIVE FindAll(_, _, _)
FindAll(re, s, i) ==
  IF i > Len(s) THEN <<>>
  ELSE LET e == MatchEnd(re, s, i)
       IN IF e = 0 THEN FindAll(re, s, i + 1)
          ELSE <<(<<i, e>>)>> \o FindAll(re, s, e + 1)

\* Regexp.FindAllString
FindAllString(re, s) ==
  LET ms == FindAll(re, s, 1)
  IN [k \in 1..Len(ms) |-> SubSeq(s, ms[k][1], ms[k][2])]

\* Regexp.ReplaceAllString(s, "")
RECURSIVE CutSpans(_, _, _)
CutSpans(s, ms, k) ==
  IF k > Len(ms) THEN SubSeq(s, IF k = 1 THEN 1 ELSE ms[k - 1][2] + 1, Len(s))
  ELSE SubSeq(s, IF k = 1 THEN 1 ELSE ms[k - 1][2] + 1, ms[k][1] - 1)
       \o CutSpans(s, ms, k + 1)

ReplaceAllString(re, s) == CutSpans(s, FindAll(re, s, 1), 1)

\* the date of the first match of a marker regexp: time.Parse of its group,
\* 0 when there is no match or the group is no calendar date
FirstDate(re, s) ==
  LET ms == FindAll(re, s, 1)
  IN IF ms = <<>> THEN 0 ELSE ParseDate(s[ms[1][2]])

\* ------------------------------------------------------------ Record Codec

\* a taskRe whose checkbox knows the small x only
TaskMatchSmallX(line) ==
  LET k == LeadSpaces(line)
  IN /\ Len(line) >= k + 5
     /\ line[k + 1] = "-"
     /\ line[k + 2] \in White
     /\ line[k + 3] = "["
     /\ line[k + 4] \in {SP, "x"}
     /\ line[k + 5] = "]"

\* taskRe  ^(\s*)-\s\[([ xX])\]\s*(.*)$
TaskMatch(line) ==
  LET k == LeadSpaces(line)
  IN /\ Len(line) >= k + 5
     /\ line[k + 1] = "-"
     /\ line[k + 2] \in White
     /\ line[k + 3] = "["
     /\ line[k + 4] \in {SP, "x", "X"}
     /\ line[k + 5] = "]"

\* the groups m[2] and m[3] of taskRe
TaskBox(line) == line[LeadSpaces(line) + 4]
TaskRest(line) == TrimLeft(SubSeq(line, LeadSpaces(line) + 6, Len(line)))

\* the description: tags, due markers and completion markers cut, in this order
Describe(rest) ==
  TrimSpace(ReplaceAllString("doneDateRe",
              ReplaceAllString("dueDateRe", ReplaceAllString("tagRe", rest))))

\* ParseTask without the fallback of lines 53-55: the due date stays zero
\* when the line has no usable due marker
ParseTaskNoFallback(line, filePath, lineNumber, noteDate) ==
  LET rest == TaskRest(line)
  IN [Description    |-> Describe(rest),
      Done           |-> TaskBox(line) \in {"x", "X"},
      Tags           |-> FindAllString("tagRe", rest),
      DueDate        |-> FirstDate("dueDateRe", rest),
      DueLocal       |-> FALSE,
      CompletionDate |-> FirstDate("doneDateRe", rest),
      FilePath       |-> filePath,
      LineNumber     |-> lineNumber,
      RawLine        |-> line]

\* ParseTask for a line that matches taskRe.  DueLocal is the location of
\* DueDate: a date of time.Parse has the location UTC, the noteDate of
\* ScanDailyNotes the local one.
ParseTask(line, filePath, lineNumber, noteDate) ==
  LET rest == TaskRest(line)
      due == FirstDate("dueDateRe", rest)
  IN [Description    |-> Describe(rest),
      Done           |-> TaskBox(line) \in {"x", "X"},
      Tags           |-> FindAllString("tagRe", rest),
      DueDate        |-> IF due = 0 THEN noteDate ELSE due,
      DueLocal       |-> due = 0,
      CompletionDate |-> FirstDate("doneDateRe", rest),
      FilePath       |-> filePath,
      LineNumber     |-> lineNumber,
      RawLine        |-> line]

\* --------------------------------------------------------------- file I/O

NoFile == <<>>

\* os.ReadFile + strings.Split, the last empty element dropped
readLines(content) ==
  IF content = <<(<<>>)>> THEN <<>>
  ELSE IF content[Len(content)] = <<>> THEN SubSeq(content, 1, Len(content) - 1)
  ELSE content

\* strings.Join(lines, "\n") + "\n".  The join of no lines is the empty
\* text, as is the join of one empty line.
writeLines(lines) == Append(IF lines = <<>> THEN <<(<<>>)>> ELSE lines, <<>>)

\* bufio.ScanLines drops one carriage return from the end of a line
dropCR(line) ==
  IF Len(line) > 0 /\ line[Len(line)] = CR THEN SubSeq(line, 1, Len(line) - 1) ELSE line

\* the lines bufio.Scanner yields
ScannerLines(content) ==
  [i \in 1..Len(readLines(content)) |-> dropCR(readLines(content)[i])]

\* ------------------------------------------------------- Document Scanner

\* the leading run of '#' of the section heading
RECURSIVE SectionLevel(_, _)
SectionLevel(heading, i) ==
  IF i <= Len(heading) /\ heading[i] = "#"
  THEN <<"#">> \o SectionLevel(heading, i + 1)
  ELSE <<>>

\* the heading test without its second half: every heading that starts with
\* the section's run of '#' closes the section, a deeper one too
ClosesOnDeeper(trimmed, heading) ==
  LET level == SectionLevel(heading, 1)
  IN HasPrefix(trimmed, level \o <<SP>>) \/ HasPrefix(trimmed, level \o <<"#">>)

\* the heading test that closes an open section
ClosesSection(trimmed, heading) ==
  LET level == SectionLevel(heading, 1)
  IN /\ HasPrefix(trimmed, level \o <<SP>>)
     /\ ~HasPrefix(trimmed, level \o <<"#">>)

\* the loop of ParseFile from line lineNum on; `stop` is the number of the
\* line at which the scanner gives up (0: it reads the whole file)
RECURSIVE ScanFrom(_, _, _, _, _, _, _)
ScanFrom(lines, lineNum, inSection, filePath, noteDate, heading, stop) ==
  IF lineNum > Len(lines) \/ lineNum = stop THEN <<>>
  ELSE
    LET line == lines[lineNum]
        trimmed == TrimSpace(line)
        Rest(sec) == ScanFrom(lines, lineNum + 1, sec, filePath, noteDate, heading, stop)
    IN IF heading # <<>> /\ trimmed = heading THEN Rest(TRUE)
       ELSE IF heading # <<>> /\ inSection /\ ClosesSection(trimmed, heading)
       THEN Rest(FALSE)
       ELSE IF inSection /\ TaskMatch(line)
       THEN <<ParseTask(line, filePath, lineNum, noteDate)>> \o Rest(inSection)
       ELSE Rest(inSection)

\* ParseFile.  bad = -1: os.Open fails; bad = k > 0: the scanner fails at
\* line k (bufio.ErrTooLong); bad = 0: no failure.
ParseFile(content, filePath, noteDate, heading, bad) ==
  IF bad = -1 \/ content = NoFile THEN [tasks |-> <<>>, err |-> "open"]
  ELSE LET lines == ScannerLines(content)
           stop == IF bad > Len(lines) THEN 0 ELSE bad
       IN [tasks |-> ScanFrom(lines, 1, heading = <<>>, filePath, noteDate, heading, stop),
           err   |-> IF stop > 0 THEN "scan" ELSE "nil"]

\* ------------------------------------------------------------ configuration

\* the configuration the program was started with; it never changes
VARIABLE cfg

\* cfg.Tasks.SectionHeading and cfg.Tasks.ExcludeTags
SectionHeading == cfg.SectionHeading
ExcludeTags == cfg.ExcludeTags

\* the time zone the program runs in: 1 when local time is behind UTC, 0 when
\* it is UTC or ahead of it.  time.Now().Truncate(24 * time.Hour) is midnight
\* UTC of the current UTC day and keeps the local location, and so do the
\* days AddDate derives from it; Format prints such a time in local time,
\* which behind UTC is the evening of the day before.
VARIABLE zone

\* d.Format(cfg.Vault.DailyNoteFormat) for day d of the loop of
\* ScanDailyNotes: the day that names the daily note read for d
NoteDay(d) == d - zone

\* ------------------------------------------------------------ Vault Index

\* the tag test with a plain prefix test, without the "/" after the prefix
ExcludedByPrefix(t) ==
  \E i \in 1..Len(t.Tags) : \E j \in 1..Len(ExcludeTags) :
    HasPrefix(t.Tags[i], ExcludeTags[j])

\* the tag test of ScanDailyNotes: tag == ex || HasPrefix(tag, ex+"/")
Excluded(t) ==
  \E i \in 1..Len(t.Tags) : \E j \in 1..Len(ExcludeTags) :
    \/ t.Tags[i] = ExcludeTags[j]
    \/ HasPrefix(t.Tags[i], ExcludeTags[j] \o <<"/">>)

\* the filter of ScanDailyNotes without its test for a record with no tag
RECURSIVE KeepNotExcluded(_, _)
KeepNotExcluded(tasks, i) ==
  IF i > Len(tasks) THEN <<>>
  ELSE IF Excluded(tasks[i]) THEN KeepNotExcluded(tasks, i + 1)
  ELSE <<tasks[i]>> \o KeepNotExcluded(tasks, i + 1)

\* the records of one file ScanDailyNotes keeps
RECURSIVE KeepTagged(_, _)
KeepTagged(tasks, i) ==
  IF i > Len(tasks) THEN <<>>
  ELSE IF Len(tasks[i].Tags) = 0 \/ Excluded(tasks[i]) THEN KeepTagged(tasks, i + 1)
  ELSE <<tasks[i]>> \o KeepTagged(tasks, i + 1)

\* the faults of the files of one scan: bad[d] is the `bad` of ParseFile for
\* the daily note named by day d.  OpenFails: the files of the days in unreadable cannot
\* be opened and no other fault happens.
OpenFails(unreadable) == [d \in Dates |-> IF d \in unreadable THEN -1 ELSE 0]

\* the loop of ScanDailyNotes from day d on
RECURSIVE ScanDays(_, _, _, _)
ScanDays(fs, d, last, bad) ==
  IF d > last THEN [tasks |-> <<>>, err |-> "nil"]
  ELSE IF fs[NoteDay(d)] = NoFile THEN ScanDays(fs, d + 1, last, bad)
  ELSE LET pf == ParseFile(fs[NoteDay(d)], NoteDay(d), d, SectionHeading, bad[NoteDay(d)])
       IN IF pf.err # "nil" THEN [tasks |-> <<>>, err |-> pf.err]
          ELSE LET more == ScanDays(fs, d + 1, last, bad)
               IN IF more.err # "nil" THEN more
                  ELSE [tasks |-> KeepTagged(pf.tasks, 1) \o more.tasks, err |-> "nil"]

ScanDailyNotes(fs, bad) ==
  ScanDays(fs, Today - LogbookDays, Today + LookaheadDays, bad)

\* ---------------------------------------------------------------- Mutator

\* io is the outcome the file system gives a call: "ok", "read" (os.ReadFile
\* fails) or "write" (os.WriteFile fails and leaves the file as it was).
\* A missing file cannot be read.
ReadFails(fs, path, io) == io = "read" \/ fs[path] = NoFile

InRange(lines, lineNumber) == lineNumber - 1 >= 0 /\ lineNumber - 1 < Len(lines)

\* the line ToggleDone writes for a record that is done / not done
UndoneLine(line) ==
  TrimRight(ReplaceAllString("doneDateRe",
    ReplaceFirst(ReplaceFirst(line, <<"[", "x", "]">>, <<"[", SP, "]">>),
                 <<"[", "X", "]">>, <<"[", SP, "]">>)))

DoneLine(line) ==
  ReplaceFirst(line, <<"[", SP, "]">>, <<"[", "x", "]">>)
    \o <<SP, "DONE", SP, FormatDate(Today)>>

\* ToggleDone without line 196: marking undone keeps the completion date
ToggleDoneKeepsDate(fs, task, io) ==
  IF ReadFails(fs, task.FilePath, io) THEN [fs |-> fs, task |-> task, err |-> "read"]
  ELSE
    LET lines == readLines(fs[task.FilePath])
    IN IF ~InRange(lines, task.LineNumber)
       THEN [fs |-> fs, task |-> task, err |-> "range"]
       ELSE
         LET line == IF task.Done THEN UndoneLine(lines[task.LineNumber])
                     ELSE DoneLine(lines[task.LineNumber])
             t2 == [task EXCEPT !.Done = ~task.Done,
                                !.CompletionDate = IF task.Done THEN @ ELSE Today,
                                !.RawLine = line]
             lines2 == [lines EXCEPT ![task.LineNumber] = line]
         IN IF io = "write" THEN [fs |-> fs, task |-> t2, err |-> "write"]
            ELSE [fs |-> [fs EXCEPT ![task.FilePath] = writeLines(lines2)],
                  task |-> t2, err |-> "nil"]

ToggleDone(fs, task, io) ==
  IF ReadFails(fs, task.FilePath, io) THEN [fs |-> fs, task |-> task, err |-> "read"]
  ELSE
    LET lines == readLines(fs[task.FilePath])
    IN IF ~InRange(lines, task.LineNumber)
       THEN [fs |-> fs, task |-> task, err |-> "range"]
       ELSE
         LET line == IF task.Done THEN UndoneLine(lines[task.LineNumber])
                     ELSE DoneLine(lines[task.LineNumber])
             t2 == [task EXCEPT !.Done = ~task.Done,
                                !.CompletionDate = IF task.Done THEN 0 ELSE Today,
                                !.RawLine = line]
             lines2 == [lines EXCEPT ![task.LineNumber] = line]
         IN IF io = "write" THEN [fs |-> fs, task |-> t2, err |-> "write"]
            ELSE [fs |-> [fs EXCEPT ![task.FilePath] = writeLines(lines2)],
                  task |-> t2, err |-> "nil"]

\* DeleteTask cutting lines[idx+1] in place of lines[idx]
DeleteTaskOffByOne(fs, task, io) ==
  IF ReadFails(fs, task.FilePath, io) THEN [fs |-> fs, task |-> task, err |-> "read"]
  ELSE
    LET lines == readLines(fs[task.FilePath])
    IN IF ~InRange(lines, task.LineNumber)
       THEN [fs |-> fs, task |-> task, err |-> "range"]
       ELSE
         LET lines2 == SubSeq(lines, 1, task.LineNumber)
                         \o SubSeq(lines, task.LineNumber + 2, Len(lines))
         IN IF io = "write" THEN [fs |-> fs, task |-> task, err |-> "write"]
            ELSE [fs |-> [fs EXCEPT ![task.FilePath] = writeLines(lines2)],
                  task |-> task, err |-> "nil"]

\* DeleteTask taking a line number out of range for nothing to delete: it
\* returns no error
DeleteTaskIgnoresRange(fs, task, io) ==
  IF ReadFails(fs, task.FilePath, io) THEN [fs |-> fs, task |-> task, err |-> "read"]
  ELSE
    LET lines == readLines(fs[task.FilePath])
    IN IF ~InRange(lines, task.LineNumber)
       THEN [fs |-> fs, task |-> task, err |-> "nil"]
       ELSE
         LET lines2 == SubSeq(lines, 1, task.LineNumber - 1)
                         \o SubSeq(lines, task.LineNumber + 1, Len(lines))
         IN IF io = "write" THEN [fs |-> fs, task |-> task, err |-> "write"]
            ELSE [fs |-> [fs EXCEPT ![task.FilePath] = writeLines(lines2)],
                  task |-> task, err |-> "nil"]

DeleteTask(fs, task, io) ==
  IF ReadFails(fs, task.FilePath, io) THEN [fs |-> fs, task |-> task, err |-> "read"]
  ELSE
    LET lines == readLines(fs[task.FilePath])
    IN IF ~InRange(lines, task.LineNumber)
       THEN [fs |-> fs, task |-> task, err |-> "range"]
       ELSE
         LET lines2 == SubSeq(lines, 1, task.LineNumber - 1)
                         \o SubSeq(lines, task.LineNumber + 1, Len(lines))
         IN IF io = "write" THEN [fs |-> fs, task |-> task, err |-> "write"]
            ELSE [fs |-> [fs EXCEPT ![task.FilePath] = writeLines(lines2)],
                  task |-> task, err |-> "nil"]

UpdateTaskLine(fs, task, newLine, io) ==
  IF ReadFails(fs, task.FilePath, io) THEN [fs |-> fs, task |-> task, err |-> "read"]
  ELSE
    LET lines == readLines(fs[task.FilePath])
    IN IF ~InRange(lines, task.LineNumber)
       THEN [fs |-> fs, task |-> task, err |-> "range"]
       ELSE
         LET t2 == [task EXCEPT !.RawLine = newLine]
             lines2 == [lines EXCEPT ![task.LineNumber] = newLine]
         IN IF io = "write" THEN [fs |-> fs, task |-> t2, err |-> "write"]
            ELSE [fs |-> [fs EXCEPT ![task.FilePath] = writeLines(lines2)],
                  task |-> t2, err |-> "nil"]

\* the line CreateTask writes
TaskLine(description, dueDate) ==
  <<"-", SP, "[", SP, "]", SP>> \o description \o <<SP, "DUE", SP, FormatDate(dueDate)>>

\* a template without the line of the section heading
TemplateNoHeading(dueDate, taskLine) ==
  << <<"-", "-", "-">>, <<"created:", SP, FormatDate(dueDate)>>, <<"-", "-", "-">>,
     <<>>, taskLine, <<>>, <<"-", "-", "-">>, <<>> >>

\* the content of a daily note CreateTask creates
Template(dueDate, taskLine) ==
  << <<"-", "-", "-">>, <<"created:", SP, FormatDate(dueDate)>>, <<"-", "-", "-">>,
     <<>>, SectionHeading, <<>>, taskLine, <<>>, <<"-", "-", "-">>, <<>> >>

\* no blank line skipped: the index directly after the heading
SkipNone(lines, i) == i

\* the 0-based index at which CreateTask inserts, -1 when no line is the heading
RECURSIVE SkipBlank(_, _)
SkipBlank(lines, i) ==
  IF i < Len(lines) /\ TrimSpace(lines[i + 1]) = <<>> THEN SkipBlank(lines, i + 1) ELSE i

InsertIdx(lines) ==
  IF \E i \in 1..Len(lines) : TrimSpace(lines[i]) = SectionHeading
  THEN SkipBlank(lines, CHOOSE i \in 1..Len(lines) :
                   /\ TrimSpace(lines[i]) = SectionHeading
                   /\ \A j \in 1..(i - 1) : TrimSpace(lines[j]) # SectionHeading)
  ELSE -1

CreateTask(fs, description, dueDate, io) ==
  LET taskLine == TaskLine(description, dueDate)
  IN IF fs[dueDate] = NoFile
     THEN IF io = "write" THEN [fs |-> fs, err |-> "write"]
          ELSE [fs |-> [fs EXCEPT ![dueDate] = Template(dueDate, taskLine)], err |-> "nil"]
     ELSE IF io = "read" THEN [fs |-> fs, err |-> "read"]
     ELSE
       LET lines == readLines(fs[dueDate])
           at == InsertIdx(lines)
           lines2 == IF at = -1
                     THEN lines \o <<(<<>>), SectionHeading, <<>>, taskLine>>
                     ELSE SubSeq(lines, 1, at) \o <<taskLine>>
                            \o SubSeq(lines, at + 1, Len(lines))
       IN IF io = "write" THEN [fs |-> fs, err |-> "write"]
          ELSE [fs |-> [fs EXCEPT ![dueDate] = writeLines(lines2)], err |-> "nil"]

\* ------------------------------------------------------------ Categorizer

viewToday == 0
viewUpcoming == 1
viewLogbook == 2

focusSidebar == 0
focusContent == 1

modeNormal == 0
modeNewTask == 1
modeEditTask == 2
modeFilter == 3
modeHelp == 4
modeConfirmDelete == 5

\* strings.ToLower
LowerChar(c) ==
  IF c = "X" THEN "x" ELSE IF c = "O" THEN "o" ELSE IF c = "P" THEN "p"
  ELSE IF c = "B" THEN "b" ELSE c
ToLower(s) == [i \in 1..Len(s) |-> LowerChar(s[i])]

\* strings.Contains
Contains(s, sub) == sub = <<>> \/ IndexFrom(s, sub, 1) # 0

\* a filter that compares the texts as they are written
matchesFilterSameCase(t, flt) ==
  \/ flt = <<>>
  \/ Contains(t.Description, flt)
  \/ \E i \in 1..Len(t.Tags) : Contains(t.Tags[i], flt)

matchesFilter(t, flt) ==
  \/ flt = <<>>
  \/ Contains(ToLower(t.Description), ToLower(flt))
  \/ \E i \in 1..Len(t.Tags) : Contains(ToLower(t.Tags[i]), ToLower(flt))

\* the keys of a map of groups sorted ascending / descending
RECURSIVE Ascending(_)
Ascending(S) ==
  IF S = {} THEN <<>>
  ELSE LET m == CHOOSE x \in S : \A y \in S : x <= y
       IN <<m>> \o Ascending(S \ {m})

\* the keys of logbookMap sorted with the comparison of the upcoming keys:
\* the oldest day first
OldestFirst(S) == Ascending(S)

RECURSIVE Descending(_)
Descending(S) ==
  IF S = {} THEN <<>>
  ELSE LET m == CHOOSE x \in S : \A y \in S : x >= y
       IN <<m>> \o Descending(S \ {m})

\* sortByDueDate: the exchange sort of buildViews
RECURSIVE SortInner(_, _, _, _)
SortInner(tasks, indices, i, j) ==
  IF j > Len(indices) THEN indices
  ELSE SortInner(tasks,
         IF tasks[indices[j]].DueDate < tasks[indices[i]].DueDate
         THEN [indices EXCEPT ![i] = indices[j], ![j] = indices[i]]
         ELSE indices,
         i, j + 1)

RECURSIVE SortOuter(_, _, _)
SortOuter(tasks, indices, i) ==
  IF i > Len(indices) THEN indices
  ELSE SortOuter(tasks, SortInner(tasks, indices, i, i + 1), i + 1)

sortByDueDate(tasks, indices) == SortOuter(tasks, indices, 1)

\* due.Format("2006-01-02"), the day a due date is printed as: its own day
\* in the location UTC, the day that names its note in the local location
DueDay(t) == IF t.DueLocal THEN t.DueDate - zone ELSE t.DueDate

\* the date that keys a done record in the logbook
LogbookDate(t) == IF t.CompletionDate = 0 THEN DueDay(t) ELSE t.CompletionDate

\* the loop with the logbook keyed by the due date of a done record, its
\* completion date ignored
BucketByDueDate(t, flt) ==
  IF ~matchesFilter(t, flt) THEN <<"none", 0>>
  ELSE IF t.Done THEN <<"logbook", DueDay(t)>>
  ELSE IF t.DueDate > Today THEN <<"upcoming", DueDay(t)>>
  ELSE IF t.DueDate = Today THEN <<"today", 0>>
  ELSE <<"overdue", 0>>

\* the list the loop of buildViews appends a record to, with its map key
BucketOf(t, flt) ==
  IF ~matchesFilter(t, flt) THEN <<"none", 0>>
  ELSE IF t.Done THEN <<"logbook", LogbookDate(t)>>
  ELSE IF t.DueDate > Today THEN <<"upcoming", DueDay(t)>>
  ELSE IF t.DueDate = Today THEN <<"today", 0>>
  ELSE <<"overdue", 0>>

\* the indices the loop appends to one list, in the order of allTasks.  The
\* index of a record is its position in allTasks, counted from 1.
Indices(tasks, flt, bucket) ==
  Ascending({i \in 1..Len(tasks) : BucketOf(tasks[i], flt) = bucket})

\* the keys of upcomingMap or logbookMap
Keys(tasks, flt, kind) ==
  {BucketOf(tasks[i], flt)[2] : i \in {k \in 1..Len(tasks) : BucketOf(tasks[k], flt)[1] = kind}}

\* buildViews, without its final clampCursor
buildViews(tasks, flt) ==
  LET todayUndone == Indices(tasks, flt, <<"today", 0>>)
      overdueUndone == Indices(tasks, flt, <<"overdue", 0>>)
      up == Ascending(Keys(tasks, flt, "upcoming"))
      lb == Descending(Keys(tasks, flt, "logbook"))
  IN [todayTasks     |-> todayUndone \o sortByDueDate(tasks, overdueUndone),
      overdueStart   |-> Len(todayUndone),
      upcomingGroups |-> [k \in 1..Len(up) |->
                           [Date |-> up[k], Tasks |-> Indices(tasks, flt, <<"upcoming", up[k]>>)]],
      logbookGroups  |-> [k \in 1..Len(lb) |->
                           [Date |-> lb[k], Tasks |-> Indices(tasks, flt, <<"logbook", lb[k]>>)]]]

RECURSIVE Flatten(_, _)
Flatten(groups, k) ==
  IF k > Len(groups) THEN <<>> ELSE groups[k].Tasks \o Flatten(groups, k + 1)

\* currentViewTasks for the views v of view number view
currentViewTasks(v, view) ==
  IF view = viewToday THEN v.todayTasks
  ELSE IF view = viewUpcoming THEN Flatten(v.upcomingGroups, 1)
  ELSE IF view = viewLogbook THEN Flatten(v.logbookGroups, 1)
  ELSE <<>>

Max(a, b) == IF a >= b THEN a ELSE b

\* clampCursor: the content cursor (counted from 0) for n records in view
\* a clampCursor that leaves the content cursor where it is
clampCursorKeeps(cursor, n) == cursor

clampCursor(cursor, n) == IF cursor >= n THEN Max(0, n - 1) ELSE cursor

\* groupIndexForCursor (counted from 0) over the groups of the active view
RECURSIVE GroupIndex(_, _, _, _)
GroupIndex(groups, cursor, i, offset) ==
  IF i > Len(groups) THEN Len(groups) - 1
  ELSE IF cursor < offset + Len(groups[i].Tasks) THEN i - 1
  ELSE GroupIndex(groups, cursor, i + 1, offset + Len(groups[i].Tasks))

\* ------------------------------------------------------------------ state

VARIABLES
  files,      \* the vault: the content of the daily note of each day
  allTasks,   \* the in-memory record set
  last,       \* the last call of a mutator: its arguments and its results
  stale,      \* a file was written since allTasks was last rebuilt
  steps,      \* number of calls made so far
  faults,     \* number of mutator calls and reloads after them that failed
  scanIn,     \* the arguments of a ParseFile call
  scanOut,    \* its result
  activeView, focus, sidebarCursor, contentCursor, mode, filter,  \* Model
  input,      \* Model.input: the value of the text input
  views       \* Model.todayTasks, overdueStart, upcomingGroups, logbookGroups

uiVars == <<activeView, focus, sidebarCursor, contentCursor, mode, filter, input, views>>
scanVars == <<scanIn, scanOut>>
vars == <<files, allTasks, last, stale, steps, faults, cfg, zone, scanVars, uiVars>>

NoTask == [Description |-> <<>>, Done |-> FALSE, Tags |-> <<>>, DueDate |-> 0,
           DueLocal |-> FALSE, CompletionDate |-> 0, FilePath |-> 0, LineNumber |-> 0, RawLine |-> <<>>]

NoCall == [op |-> "none", idx |-> 0, err |-> "nil", fs0 |-> <<>>, task0 |-> NoTask,
           task1 |-> NoTask, stale0 |-> FALSE, reload |-> "none", prevOp |-> "none",
           prevIdx |-> 0, prevErr |-> "nil", prevTask0 |-> NoTask,
           text |-> <<>>, due |-> 0]

\* the record of a call of op on allTasks[i] with result r, made in the
\* current state
Call(op, i, r) ==
  [op |-> op, idx |-> i, err |-> r.err, fs0 |-> files, task0 |-> allTasks[i],
   task1 |-> r.task, stale0 |-> stale, reload |-> "none", prevOp |-> last.op,
   prevIdx |-> last.idx, prevErr |-> last.err, prevTask0 |-> last.task0,
   text |-> <<>>, due |-> 0]

\* NewModel over the records tasks
NewModel(tasks) ==
  /\ allTasks = tasks
  /\ mode = modeNormal
  /\ activeView = viewToday
  /\ focus = focusSidebar
  /\ sidebarCursor = 0
  /\ contentCursor = 0
  /\ filter = <<>>
  /\ input = <<>>
  /\ views = buildViews(allTasks, <<>>)

\* ------------------------------------------------------------- text pools

Box(c) == <<"-", SP, "[", c, "]", SP>>
TagA == <<SP, "#", "a">>
Due(d) == <<SP, "DUE", SP, FormatDate(d)>>
Completed(d) == <<SP, "DONE", SP, FormatDate(d)>>

\* heading lines and body text of a daily note
HeadingO == <<"#", "#", SP, "O">>
HeadingP == <<"#", "#", SP, "P">>
DeeperP == <<"#", "#", "#", SP, "P">>
ShallowP == <<"#", SP, "P">>
Body == <<"a", SP, "b">>

\* task lines: plain, done with markers, brackets in the description, a
\* completion marker on an open task, date texts that are no dates, indent
\* and trailing spaces
TaskLines ==
  { Box(SP) \o <<"a">> \o TagA,
    Box("x") \o <<"b">> \o TagA \o Due(Today) \o Completed(Today - 1),
    Box("x") \o <<"a", SP, "[", "X", "]">> \o TagA \o Completed(Today),
    Box("X") \o <<"[", "x", "]", SP, "b">> \o TagA,
    Box(SP) \o <<"a", SP, "[", "X", "]">> \o TagA,
    Box(SP) \o <<"a">> \o Completed(Today - 1) \o TagA \o <<SP>>,
    <<SP, SP>> \o Box(SP) \o <<"b", SP, "DUE", SP, "dBad">> \o Due(Today + 1) \o TagA }

\* the configuration of the model: the section heading "## O" and the
\* excluded tag "#b"
DefaultConfig == [SectionHeading |-> HeadingO, ExcludeTags |-> <<(<<"#", "b">>)>>]

\* the outcomes of the file system for one mutator call
IO == {"ok", "read", "write"}

\* --------------------------------------------- specification of the scanner

ScanLen == 4

ScanLines ==
  { HeadingO, <<SP>> \o HeadingO \o <<SP>>, HeadingP, DeeperP, ShallowP, Body,
    Box("x") \o <<"b">> \o TagA \o Due(Today + 1) \o Completed(Today),
    Box(SP) \o <<"b", SP, "DUE", SP, "dBad">> \o Due(Today + 1),
    <<SP>> \o Box(SP) \o <<"a", SP, "DUE">> \o Completed(Today) }

\* notes of one line: a task line of a note with the line ends CR LF, task
\* lines with a tab behind the dash and in front of it, a task line with a
\* tag between a due marker and a date, and lines that are close to task lines
CodecLines ==
  { Box(SP) \o <<"a">> \o TagA \o <<CR>>,
    <<"-", TAB, "[", "x", "]", SP, "b">> \o TagA,
    <<TAB>> \o Box("X") \o <<"a">> \o TagA,
    Box(SP) \o <<"a", SP, "DUE">> \o TagA \o <<SP, FormatDate(Today + 1)>>,
    <<"-", "[", SP, "]", SP, "a">> \o TagA,
    <<"-", SP, SP, "[", SP, "]", SP, "a">> \o TagA,
    <<"*", SP, "[", SP, "]", SP, "a">> \o TagA,
    <<"-", SP, "[", "a", "]", SP, "a">> \o TagA,
    <<"a", SP>> \o Box(SP) \o <<"a">> \o TagA }

ScanHeadings == {<<>>, HeadingO}

NoScan == [ran |-> FALSE, tasks |-> <<>>, err |-> "nil"]

InitScan ==
  /\ files = [d \in Dates |-> NoFile]
  /\ cfg = DefaultConfig
  /\ zone = 0
  /\ NewModel(<<>>)
  /\ last = NoCall
  /\ stale = FALSE
  /\ steps = 0
  /\ faults = 0
  /\ scanIn \in [content : {c \o tail : c \in [1..ScanLen -> ScanLines]
                                                 \cup [1..1 -> CodecLines],
                                         tail \in {<<>>, <<(<<>>)>>}},
                 heading : ScanHeadings,
                 noteDate : {Today}]
  /\ scanOut = NoScan

\* one call of ParseFile
ScanParseFile ==
  /\ ~scanOut.ran
  /\ LET pf == ParseFile(scanIn.content, scanIn.noteDate, scanIn.noteDate,
                         scanIn.heading, 0)
     IN scanOut' = [ran |-> TRUE, tasks |-> pf.tasks, err |-> pf.err]
  /\ UNCHANGED <<files, allTasks, last, stale, steps, faults, cfg, zone, scanIn, uiVars>>

NextScan == ScanParseFile

SpecScan == InitScan /\ [][NextScan]_vars

\* ------------------------------------ specification of the sidebar UI (ui.go)

MaxFaults == 1

\* the marker texts the edit flow of ui.go writes: its two string literals
\* hold other characters than the calendar and check-mark emoji of parser.go
EditDue == "DUE_AS_WRITTEN_BY_UI"
EditDone == "DONE_AS_WRITTEN_BY_UI"

\* the texts a user types into the text input: a filter, a plain or an
\* emptied description for the edit flow, or a description with a tag and a due marker
InputTexts(m) ==
  IF m = modeFilter THEN {<<"b">>}
  ELSE IF m = modeEditTask THEN {<<"X">>, <<>>}
  ELSE {<<"b">> \o TagA \o Due(Today + 1), <<"a">> \o TagA, <<"b">>,
        <<"a", SP, "#", "b">>, <<"a">> \o TagA \o Due(MaxDate)}

\* a vault with a record overdue, one due today and one done; the new-task
\* flow adds the upcoming ones
UiVault ==
  [d \in Dates |->
     IF d = Today - 1
     THEN <<HeadingO, Box(SP) \o <<"a">> \o TagA,
            Box("x") \o <<"b">> \o TagA \o Completed(Today - 1), <<>>>>
     ELSE IF d = Today
     THEN <<HeadingO, Box(SP) \o <<"b">> \o TagA, <<>>>>
     ELSE NoFile]

Init ==
  /\ files = UiVault
  /\ cfg = DefaultConfig
  /\ zone = 0
  /\ NewModel(ScanDailyNotes(files, OpenFails({})).tasks)
  /\ last = NoCall
  /\ stale = FALSE
  /\ steps = 0
  /\ faults = 0
  /\ scanIn = [content |-> <<>>, heading |-> <<>>, noteDate |-> 0]
  /\ scanOut = NoScan

ghostVars == <<last, stale, steps, faults>>

\* the records of the active view and selectedTask: the index of the selected
\* record in allTasks, 0 for nil
ViewTasks == currentViewTasks(views, activeView)
selectedTask ==
  IF Len(ViewTasks) = 0 \/ contentCursor >= Len(ViewTasks) THEN 0
  ELSE ViewTasks[contentCursor + 1]

\* the outcomes the file system may give one handler: the outcome io of the
\* mutator call and the days unreadable to the reload that follows
Outcomes ==
  {o \in [io : IO, unreadable : {{}, Dates}] :
     /\ (o.io # "ok") => o.unreadable = {}
     /\ (o.io # "ok" \/ o.unreadable # {}) => faults < MaxFaults}

\* buildViews with its clampCursor, for the view and cursor given
Rebuilt(tasks, flt, view, cursor) ==
  /\ views' = buildViews(tasks, flt)
  /\ contentCursor' = clampCursor(cursor, Len(currentViewTasks(views', view)))

\* a reload that replaces the record set and leaves the views as they are
ReloadKeepsViews(sc) ==
  IF sc.err # "nil"
  THEN UNCHANGED <<allTasks, views, contentCursor>>
  ELSE /\ allTasks' = sc.tasks
       /\ UNCHANGED <<views, contentCursor>>

\* Model.reload with the result sc of ScanDailyNotes
Reload(sc) ==
  IF sc.err # "nil"
  THEN UNCHANGED <<allTasks, views, contentCursor>>
  ELSE /\ allTasks' = sc.tasks
       /\ Rebuilt(allTasks', filter, activeView, contentCursor)

\* the due date and the description the new-task flow passes to CreateTask
NewTaskDue(value) ==
  LET groupIdx == GroupIndex(views.upcomingGroups, contentCursor, 1, 0)
      fromView == IF /\ activeView = viewUpcoming /\ Len(views.upcomingGroups) > 0
                     /\ groupIdx >= 0 /\ groupIdx < Len(views.upcomingGroups)
                  THEN views.upcomingGroups[groupIdx + 1].Date
                  ELSE Today
      typed == FirstDate("dueDateRe", value)
  IN IF typed # 0 THEN typed ELSE fromView

NewTaskText(value) ==
  IF FindAll("dueDateRe", value, 1) # <<>>
  THEN TrimSpace(ReplaceAllString("dueDateRe", value))
  ELSE value

\* a handler called a mutator on record i with result r and reloads when the
\* call succeeded
MutatedByUi(op, i, r, o) ==
  \E sc \in {IF r.err = "nil" THEN ScanDailyNotes(r.fs, OpenFails(o.unreadable))
              ELSE [tasks |-> <<>>, err |-> "none"]} :
     /\ files' = r.fs
     /\ IF r.err = "nil"
        THEN IF i = 0 \/ sc.err = "nil"
             THEN Reload(sc)
             ELSE /\ allTasks' = [allTasks EXCEPT ![i] = r.task]
                  /\ UNCHANGED <<views, contentCursor>>
        ELSE /\ allTasks' = IF i = 0 THEN allTasks ELSE [allTasks EXCEPT ![i] = r.task]
             /\ UNCHANGED <<views, contentCursor>>
     /\ last' = [op |-> op, idx |-> i, err |-> r.err, fs0 |-> files,
                 task0 |-> IF i = 0 THEN NoTask ELSE allTasks[i],
                 task1 |-> IF i = 0 THEN NoTask ELSE r.task,
                 stale0 |-> stale,
                 reload |-> IF r.err # "nil" THEN "none"
                            ELSE IF sc.err = "nil" THEN "ok" ELSE "failed",
                 prevOp |-> last.op, prevIdx |-> last.idx, prevErr |-> last.err,
                 prevTask0 |-> last.task0,
                 text |-> IF op \in {"CreateTask", "UpdateTaskLine"} THEN input ELSE <<>>,
                 due |-> IF op = "CreateTask" THEN NewTaskDue(input) ELSE 0]
     /\ stale' = IF r.err = "nil" /\ sc.err = "nil" THEN FALSE
                 ELSE (stale \/ r.err = "nil")
     /\ steps' = steps + 1
     /\ faults' = IF r.err \in {"read", "write"} \/ (r.err = "nil" /\ sc.err # "nil")
                  THEN faults + 1 ELSE faults

SwitchView(view) ==
  /\ mode = modeNormal
  /\ activeView' = view
  /\ sidebarCursor' = view
  /\ contentCursor' = 0
  /\ UNCHANGED <<files, allTasks, ghostVars, cfg, zone, scanVars, focus, mode, filter, input, views>>

Key1 == SwitchView(viewToday)
Key2 == SwitchView(viewUpcoming)
Key3 == SwitchView(viewLogbook)

KeyTab ==
  /\ mode = modeNormal
  /\ focus' = IF focus = focusSidebar THEN focusContent ELSE focusSidebar
  /\ UNCHANGED <<files, allTasks, ghostVars, cfg, zone, scanVars, activeView, sidebarCursor,
                 contentCursor, mode, filter, input, views>>

KeyH ==
  /\ mode = modeNormal
  /\ focus' = focusSidebar
  /\ UNCHANGED <<files, allTasks, ghostVars, cfg, zone, scanVars, activeView, sidebarCursor,
                 contentCursor, mode, filter, input, views>>

KeyL ==
  /\ mode = modeNormal
  /\ focus' = IF focus = focusSidebar THEN focusContent ELSE focus
  /\ UNCHANGED <<files, allTasks, ghostVars, cfg, zone, scanVars, activeView, sidebarCursor,
                 contentCursor, mode, filter, input, views>>

\* a key j that moves the content cursor in every mode
KeyJAnyMode ==
  /\ focus = focusContent
  /\ contentCursor' =
       IF Len(ViewTasks) > 0 /\ contentCursor < Len(ViewTasks) - 1
       THEN contentCursor + 1 ELSE contentCursor
  /\ UNCHANGED <<files, allTasks, ghostVars, cfg, zone, scanVars, activeView, sidebarCursor,
                 focus, mode, filter, input, views>>

\* a key j that moves the sidebar cursor and leaves the active view
KeyJKeepsView ==
  /\ mode = modeNormal
  /\ IF focus = focusSidebar
     THEN IF sidebarCursor < 2
          THEN /\ sidebarCursor' = sidebarCursor + 1
               /\ contentCursor' = 0
               /\ UNCHANGED activeView
          ELSE UNCHANGED <<sidebarCursor, activeView, contentCursor>>
     ELSE /\ contentCursor' =
               IF Len(ViewTasks) > 0 /\ contentCursor < Len(ViewTasks) - 1
               THEN contentCursor + 1 ELSE contentCursor
          /\ UNCHANGED <<sidebarCursor, activeView>>
  /\ UNCHANGED <<files, allTasks, ghostVars, cfg, zone, scanVars, focus, mode, filter, input, views>>

KeyJ ==
  /\ mode = modeNormal
  /\ IF focus = focusSidebar
     THEN IF sidebarCursor < 2
          THEN /\ sidebarCursor' = sidebarCursor + 1
               /\ activeView' = sidebarCursor + 1
               /\ contentCursor' = 0
          ELSE UNCHANGED <<sidebarCursor, activeView, contentCursor>>
     ELSE /\ contentCursor' =
               IF Len(ViewTasks) > 0 /\ contentCursor < Len(ViewTasks) - 1
               THEN contentCursor + 1 ELSE contentCursor
          /\ UNCHANGED <<sidebarCursor, activeView>>
  /\ UNCHANGED <<files, allTasks, ghostVars, cfg, zone, scanVars, focus, mode, filter, input, views>>

KeyK ==
  /\ mode = modeNormal
  /\ IF focus = focusSidebar
     THEN IF sidebarCursor > 0
          THEN /\ sidebarCursor' = sidebarCursor - 1
               /\ activeView' = sidebarCursor - 1
               /\ contentCursor' = 0
          ELSE UNCHANGED <<sidebarCursor, activeView, contentCursor>>
     ELSE /\ contentCursor' = IF contentCursor > 0 THEN contentCursor - 1 ELSE contentCursor
          /\ UNCHANGED <<sidebarCursor, activeView>>
  /\ UNCHANGED <<files, allTasks, ghostVars, cfg, zone, scanVars, focus, mode, filter, input, views>>

\* the conditions under which the keys enter and d reach ToggleDone
CanToggle == activeView # viewLogbook /\ selectedTask # 0

\* the ToggleDone branch shared by the keys enter and d
ToggleSelected ==
  /\ CanToggle
  /\ steps < MaxSteps
  /\ \E o \in Outcomes :
       MutatedByUi("ToggleDone", selectedTask,
                   ToggleDone(files, allTasks[selectedTask], o.io), o)
  /\ UNCHANGED <<cfg, zone, scanVars, activeView, focus, sidebarCursor, mode, filter, input>>

KeyEnter ==
  /\ mode = modeNormal
  /\ \/ /\ focus = focusSidebar
        /\ focus' = focusContent
        /\ UNCHANGED <<files, allTasks, ghostVars, cfg, zone, scanVars, activeView, sidebarCursor,
                       contentCursor, mode, filter, input, views>>
     \/ /\ focus # focusSidebar
        /\ ToggleSelected

KeyD ==
  /\ mode = modeNormal
  /\ focus = focusContent
  /\ ToggleSelected

\* a key D that asks for the confirmation in every view and focus
KeyShiftDAnywhere ==
  /\ mode = modeNormal
  /\ mode' = modeConfirmDelete
  /\ UNCHANGED <<files, allTasks, ghostVars, cfg, zone, scanVars, activeView, focus, sidebarCursor,
                 contentCursor, filter, input, views>>

KeyShiftD ==
  /\ mode = modeNormal
  /\ focus = focusContent /\ activeView # viewLogbook
  /\ selectedTask # 0
  /\ mode' = modeConfirmDelete
  /\ UNCHANGED <<files, allTasks, ghostVars, cfg, zone, scanVars, activeView, focus, sidebarCursor,
                 contentCursor, filter, input, views>>

\* a key n that opens the new-task input in the Logbook too
KeyNAnyView ==
  /\ mode = modeNormal
  /\ mode' = modeNewTask
  /\ input' = <<>>
  /\ UNCHANGED <<files, allTasks, ghostVars, cfg, zone, scanVars, activeView, focus, sidebarCursor,
                 contentCursor, filter, views>>

KeyN ==
  /\ mode = modeNormal
  /\ activeView # viewLogbook
  /\ mode' = modeNewTask
  /\ input' = <<>>
  /\ UNCHANGED <<files, allTasks, ghostVars, cfg, zone, scanVars, activeView, focus, sidebarCursor,
                 contentCursor, filter, views>>

KeyE ==
  /\ mode = modeNormal
  /\ focus = focusContent /\ activeView # viewLogbook
  /\ selectedTask # 0
  /\ mode' = modeEditTask
  /\ input' = allTasks[selectedTask].Description
  /\ UNCHANGED <<files, allTasks, ghostVars, cfg, zone, scanVars, activeView, focus, sidebarCursor,
                 contentCursor, filter, views>>

KeySlash ==
  /\ mode = modeNormal
  /\ mode' = modeFilter
  /\ input' = filter
  /\ UNCHANGED <<files, allTasks, ghostVars, cfg, zone, scanVars, activeView, focus, sidebarCursor,
                 contentCursor, filter, views>>

KeyEsc ==
  /\ mode = modeNormal
  /\ filter # <<>>
  /\ filter' = <<>>
  /\ Rebuilt(allTasks, <<>>, activeView, contentCursor)
  /\ UNCHANGED <<files, allTasks, ghostVars, cfg, zone, scanVars, activeView, focus, sidebarCursor,
                 mode, input>>

KeyHelp ==
  /\ mode = modeNormal
  /\ mode' = modeHelp
  /\ UNCHANGED <<files, allTasks, ghostVars, cfg, zone, scanVars, activeView, focus, sidebarCursor,
                 contentCursor, filter, input, views>>

\* a reload that fails leaves the model as it is
KeyR ==
  /\ mode = modeNormal
  /\ \E unreadable \in {{}, Dates} :
       \E sc \in {ScanDailyNotes(files, OpenFails(unreadable))} :
          /\ Reload(sc)
          /\ stale' = (stale /\ sc.err # "nil")
  /\ UNCHANGED <<files, last, steps, faults, cfg, zone, scanVars, activeView, focus, sidebarCursor,
                 mode, filter, input>>

\* any key closes the help screen
HelpAnyKey ==
  /\ mode = modeHelp
  /\ mode' = modeNormal
  /\ UNCHANGED <<files, allTasks, ghostVars, cfg, zone, scanVars, activeView, focus, sidebarCursor,
                 contentCursor, filter, input, views>>

InInputMode == mode \in {modeNewTask, modeEditTask, modeFilter}

\* the keys the text input takes: the user edits the value
InputType ==
  /\ InInputMode
  /\ input' \in InputTexts(mode)
  /\ UNCHANGED <<files, allTasks, ghostVars, cfg, zone, scanVars, activeView, focus, sidebarCursor,
                 contentCursor, mode, filter, views>>

InputEsc ==
  /\ InInputMode
  /\ mode' = modeNormal
  /\ UNCHANGED <<files, allTasks, ghostVars, cfg, zone, scanVars, activeView, focus, sidebarCursor,
                 contentCursor, filter, input, views>>

InputEnterNewTask ==
  /\ mode = modeNewTask
  /\ mode' = modeNormal
  /\ input' = <<>>
  /\ IF input = <<>>
     THEN UNCHANGED <<files, allTasks, ghostVars, contentCursor, views>>
     ELSE /\ steps < MaxSteps
          /\ \E o \in Outcomes :
               LET c == CreateTask(files, NewTaskText(input), NewTaskDue(input), o.io)
               IN MutatedByUi("CreateTask", 0,
                              [fs |-> c.fs, task |-> NoTask, err |-> c.err], o)
  /\ UNCHANGED <<cfg, zone, scanVars, activeView, focus, sidebarCursor, filter>>

\* the line the edit flow rebuilds for record t and the typed description
EditedLine(t, value) ==
  <<"-", SP>> \o (IF t.Done THEN <<"[", "x", "]", SP>> ELSE <<"[", SP, "]", SP>>)
    \o value
    \o Flatten([k \in 1..Len(t.Tags) |-> [Tasks |-> <<SP>> \o t.Tags[k]]], 1)
    \o (IF t.DueDate # 0 THEN <<SP, EditDue, SP, FormatDate(t.DueDate)>> ELSE <<>>)
    \o (IF t.CompletionDate # 0 THEN <<SP, EditDone, SP, FormatDate(t.CompletionDate)>>
        ELSE <<>>)

InputEnterEditTask ==
  /\ mode = modeEditTask
  /\ mode' = modeNormal
  /\ input' = <<>>
  /\ IF input = <<>> \/ selectedTask = 0
     THEN UNCHANGED <<files, allTasks, ghostVars, contentCursor, views>>
     ELSE /\ steps < MaxSteps
          /\ \E o \in Outcomes :
               MutatedByUi("UpdateTaskLine", selectedTask,
                           UpdateTaskLine(files, allTasks[selectedTask],
                                          EditedLine(allTasks[selectedTask], input), o.io),
                           o)
  /\ UNCHANGED <<cfg, zone, scanVars, activeView, focus, sidebarCursor, filter>>

InputEnterFilter ==
  /\ mode = modeFilter
  /\ mode' = modeNormal
  /\ input' = <<>>
  /\ filter' = input
  /\ Rebuilt(allTasks, input, activeView, contentCursor)
  /\ UNCHANGED <<files, allTasks, ghostVars, cfg, zone, scanVars, activeView, focus, sidebarCursor>>

\* y or Y in the confirm-delete mode
ConfirmYes ==
  /\ mode = modeConfirmDelete
  /\ mode' = modeNormal
  /\ IF selectedTask = 0
     THEN UNCHANGED <<files, allTasks, ghostVars, contentCursor, views>>
     ELSE /\ steps < MaxSteps
          /\ \E o \in Outcomes :
               MutatedByUi("DeleteTask", selectedTask,
                           DeleteTask(files, allTasks[selectedTask], o.io), o)
  /\ UNCHANGED <<cfg, zone, scanVars, activeView, focus, sidebarCursor, filter, input>>

\* n, N, esc or q in the confirm-delete mode
ConfirmNo ==
  /\ mode = modeConfirmDelete
  /\ mode' = modeNormal
  /\ UNCHANGED <<files, allTasks, ghostVars, cfg, zone, scanVars, activeView, focus, sidebarCursor,
                 contentCursor, filter, input, views>>

\* Model.Update for a key message.  The keys q and ctrl+c of the normal mode
\* end the program: a behaviour may stop in any state.
Next ==
  \/ Key1 \/ Key2 \/ Key3 \/ KeyTab \/ KeyH \/ KeyL \/ KeyJ \/ KeyK
  \/ KeyEnter \/ KeyD \/ KeyShiftD \/ KeyN \/ KeyE \/ KeySlash \/ KeyEsc
  \/ KeyHelp \/ KeyR \/ HelpAnyKey
  \/ InputType \/ InputEsc \/ InputEnterNewTask \/ InputEnterEditTask
  \/ InputEnterFilter \/ ConfirmYes \/ ConfirmNo

Spec == Init /\ [][Next]_vars

\* ---------------------------------------------- properties of the scanner

\* the lines of the scanned file, and line n trimmed
ScLines == ScannerLines(scanIn.content)
ScTrim(n) == TrimSpace(ScLines[n])

\* the depth of a Markdown heading line: the length of its leading run of
\* '#' when a space follows the run, 0 for a line that is no heading
HeadDepth(line) ==
  LET t == TrimSpace(line)
      Run(n) == Len(t) > n /\ (\A i \in 1..n : t[i] = "#") /\ t[n + 1] = SP
  IN IF \E n \in 1..Len(t) : Run(n) THEN CHOOSE n \in 1..Len(t) : Run(n) ELSE 0

ScDepth == HeadDepth(scanIn.heading)
IsHeadingLine(n) == ScTrim(n) = scanIn.heading
ScanLineNumbers == {scanOut.tasks[i].LineNumber : i \in 1..Len(scanOut.tasks)}

\* line k is a heading, other than the section heading, of the depth of the
\* section heading or shallower, and the section heading does not occur again
\* between line k and line n
ClosedBy(k, n) ==
  /\ k < n
  /\ HeadDepth(ScLines[k]) >= 1
  /\ HeadDepth(ScLines[k]) <= ScDepth
  /\ ~IsHeadingLine(k)
  /\ \A j \in (k + 1)..(n - 1) : ~IsHeadingLine(j)

\* C8: with a section heading of depth d, no record comes from a line that
\* follows a heading of depth <= d with no section heading in between.
C8_ScopeEndsAtShallowerOrEqual ==
  (scanOut.ran /\ scanIn.heading # <<>>) =>
    \A n \in ScanLineNumbers : ~\E k \in 1..Len(ScLines) : ClosedBy(k, n)

\* line k is a sibling heading: a heading of exactly the depth of the section
\* heading that is not the section heading itself
Sibling(k) == HeadDepth(ScLines[k]) = ScDepth /\ ~IsHeadingLine(k)

\* line n lies in an open section: the section heading occurs above it and
\* no sibling heading occurs from there down to line n
InOpenSection(n) ==
  /\ ~IsHeadingLine(n)
  /\ \E j \in 1..(n - 1) :
       /\ IsHeadingLine(j)
       /\ \A k \in (j + 1)..n : ~Sibling(k)

\* C9: the records of a scan with a section heading are exactly the checkbox
\* lines in an open section, where only a sibling heading closes the section
\* (a deeper heading or a body line does not) and heading lines give no record.
C9_SiblingClosesDeeperStays ==
  (scanOut.ran /\ scanIn.heading # <<>>) =>
    /\ ScanLineNumbers = {n \in 1..Len(ScLines) : InOpenSection(n) /\ TaskMatch(ScLines[n])}
    /\ Len(scanOut.tasks) = Cardinality(ScanLineNumbers)

\* a record was returned from a checkbox line below a deeper heading of an
\* open section
C9_Witness ==
  /\ scanOut.ran /\ scanIn.heading = HeadingO
  /\ \E n \in ScanLineNumbers : \E k \in 1..(n - 1) :
       InOpenSection(k) /\ HeadDepth(ScLines[k]) > ScDepth

\* a due marker starts at i: the calendar emoji, spaces, a date text
DueTextAt(s, i) ==
  IF s[i] = "DUE" /\ \E j \in (i + 1)..Len(s) :
       s[j] \in DateChars /\ \A k \in (i + 1)..(j - 1) : s[k] = SP
  THEN s[CHOOSE j \in (i + 1)..Len(s) :
         s[j] \in DateChars /\ \A k \in (i + 1)..(j - 1) : s[k] = SP]
  ELSE "none"

DueMarkers(s) == {i \in 1..Len(s) : DueTextAt(s, i) # "none"}
ValidDueMarkers(s) == {i \in DueMarkers(s) : ParseDate(DueTextAt(s, i)) # 0}
First(S) == CHOOSE i \in S : \A j \in S : i <= j

\* C10 as stated: every record of a scan has a due date, the date of the first
\* due marker of its line that holds a calendar date, and the note date when
\* the line has no such marker.
C10_DueIsFirstValidMarker ==
  scanOut.ran =>
    \A i \in 1..Len(scanOut.tasks) :
      LET t == scanOut.tasks[i]
          v == ValidDueMarkers(t.RawLine)
      IN /\ t.DueDate # 0
         /\ t.DueDate = IF v = {} THEN scanIn.noteDate
                        ELSE ParseDate(DueTextAt(t.RawLine, First(v)))

\* C10 amended: every record of a scan has a due date; it is the date of the
\* first due marker of its line when the text of that marker is a calendar
\* date, and the note date when the line has no due marker or the text of its
\* first marker is no calendar date (later markers are not consulted).
C10_DueIsFirstMarkerOrNoteDate ==
  scanOut.ran =>
    \A i \in 1..Len(scanOut.tasks) :
      LET t == scanOut.tasks[i]
          m == DueMarkers(t.RawLine)
          first == IF m = {} THEN 0 ELSE ParseDate(DueTextAt(t.RawLine, First(m)))
      IN /\ t.DueDate # 0
         /\ t.DueDate = IF first = 0 THEN scanIn.noteDate ELSE first

\* records with their own due date, with the inherited note date for want of
\* a marker, and with the note date because the first marker is no date
C10_Witness ==
  /\ scanOut.ran
  /\ \E i, j, k \in 1..Len(scanOut.tasks) :
       /\ DueMarkers(scanOut.tasks[i].RawLine) = {}
       /\ scanOut.tasks[j].DueDate # scanIn.noteDate
       /\ ValidDueMarkers(scanOut.tasks[k].RawLine) # {}
       /\ scanOut.tasks[k].DueDate = scanIn.noteDate

\* -------------------------------- specification of the callers of parser.go

\* a daily note of today: the section heading and two task lines, or one
\* task line alone, with or without a newline at the end of the file
ApiContents ==
  {<<HeadingO, t1, t2>> \o tail : t1 \in TaskLines, t2 \in TaskLines,
                                  tail \in {<<>>, <<(<<>>)>>}}
    \cup {<<t1>> \o tail : t1 \in TaskLines, tail \in {<<>>, <<(<<>>)>>}}
    \cup {<<HeadingO \o <<SP>>, <<>>, <<SP>>, Box(SP) \o <<"a">> \o TagA>>,
          <<Box(SP) \o <<"a">> \o TagA, HeadingO, <<>>, Box(SP) \o <<"b">> \o TagA, <<>>>>,
          <<<<SP>> \o HeadingO, Box(SP) \o <<"a">> \o TagA, HeadingO,
            Box(SP) \o <<"b">> \o TagA>>}

\* the configurations of the callers: with the section heading, and with an
\* empty one, under which every task line of a file is a record
ApiConfigs == {DefaultConfig, [DefaultConfig EXCEPT !.SectionHeading = <<>>]}

\* the text a caller passes to UpdateTaskLine and to CreateTask
NewLines == {Box(SP) \o <<"b">> \o TagA \o Due(Today)}
NewDescriptions == {<<"a">> \o TagA}

InitApi ==
  /\ \E c \in ApiContents : files = [d \in Dates |-> IF d = Today THEN c ELSE NoFile]
  /\ cfg \in ApiConfigs
  /\ zone = 0
  /\ NewModel(ParseFile(files[Today], Today, Today, SectionHeading, 0).tasks)
  /\ last = NoCall
  /\ stale = FALSE
  /\ steps = 0
  /\ faults = 0
  /\ scanIn = [content |-> <<>>, heading |-> <<>>, noteDate |-> 0]
  /\ scanOut = NoScan

\* the effect of a mutator call with result r on record i
Mutated(op, i, r) ==
  /\ files' = r.fs
  /\ allTasks' = [allTasks EXCEPT ![i] = r.task]
  /\ last' = Call(op, i, r)
  /\ stale' = (stale \/ r.err = "nil")
  /\ steps' = steps + 1
  /\ faults' = IF r.err \in {"read", "write"} THEN faults + 1 ELSE faults
  /\ UNCHANGED <<cfg, zone, scanVars, uiVars>>

ApiToggleDone ==
  /\ steps < MaxSteps
  /\ \E i \in 1..Len(allTasks), io \in IO :
       Mutated("ToggleDone", i, ToggleDone(files, allTasks[i], io))

ApiDeleteTask ==
  /\ steps < MaxSteps
  /\ \E i \in 1..Len(allTasks), io \in IO :
       Mutated("DeleteTask", i, DeleteTask(files, allTasks[i], io))

ApiUpdateTaskLine ==
  /\ steps < MaxSteps
  /\ \E i \in 1..Len(allTasks), io \in IO, newLine \in NewLines :
       Mutated("UpdateTaskLine", i, UpdateTaskLine(files, allTasks[i], newLine, io))

ApiCreateTask ==
  /\ steps < MaxSteps
  /\ \E description \in NewDescriptions, dueDate \in {Today, Today + 1}, io \in IO :
       LET r == CreateTask(files, description, dueDate, io)
       IN /\ files' = r.fs
          /\ last' = [NoCall EXCEPT !.op = "CreateTask", !.err = r.err, !.fs0 = files,
                                    !.stale0 = stale, !.text = description,
                                    !.due = dueDate]
          /\ stale' = (stale \/ r.err = "nil")
          /\ steps' = steps + 1
          /\ faults' = IF r.err = "nil" THEN faults ELSE faults + 1
          /\ UNCHANGED <<allTasks, cfg, zone, scanVars, uiVars>>

\* the caller scans a daily note again
ApiParseFile ==
  /\ steps < MaxSteps
  /\ \E d \in Dates :
       /\ files[d] # NoFile
       /\ allTasks' = ParseFile(files[d], d, d, SectionHeading, 0).tasks
  /\ last' = [NoCall EXCEPT !.op = "ParseFile"]
  /\ stale' = FALSE
  /\ steps' = steps + 1
  /\ UNCHANGED <<files, faults, cfg, zone, scanVars, uiVars>>

NextApi ==
  \/ ApiToggleDone
  \/ ApiDeleteTask
  \/ ApiUpdateTaskLine
  \/ ApiCreateTask
  \/ ApiParseFile

SpecApi == InitApi /\ [][NextApi]_vars

\* --------------------------------------------- properties of the mutators

LocatorOps == {"ToggleDone", "DeleteTask", "UpdateTaskLine"}

\* the lines of the addressed file before and after the last call, and the
\* line number the call addressed
Lines0 == readLines(last.fs0[last.task0.FilePath])
Lines1 == readLines(files[last.task0.FilePath])
Addressed == last.task0.LineNumber
WasReadable == last.op \in LocatorOps /\ last.err # "read"

\* C1: a successful ToggleDone, UpdateTaskLine or DeleteTask leaves every line
\* other than the addressed one as it was and in the same order; ToggleDone
\* and UpdateTaskLine keep the number of lines.
C1_OtherLinesPreserved ==
  (last.op \in LocatorOps /\ last.err = "nil") =>
    /\ \A j \in 1..(Addressed - 1) : j <= Len(Lines1) /\ Lines1[j] = Lines0[j]
    /\ last.op # "DeleteTask" =>
         /\ Len(Lines1) = Len(Lines0)
         /\ \A j \in (Addressed + 1)..Len(Lines0) : Lines1[j] = Lines0[j]
    /\ last.op = "DeleteTask" =>
         \A j \in (Addressed + 1)..Len(Lines0) :
           j - 1 <= Len(Lines1) /\ Lines1[j - 1] = Lines0[j]

\* a call changed a line that has lines above and below it
C1_Witness ==
  /\ last.op \in {"ToggleDone", "UpdateTaskLine"} /\ last.err = "nil"
  /\ Addressed > 1 /\ Addressed < Len(Lines0)
  /\ Lines1[Addressed] # Lines0[Addressed]

\* C3: in every record of the record set, done = false implies that the
\* completion date is unset.
C3_OpenHasNoCompletionDate ==
  \A i \in 1..Len(allTasks) : ~allTasks[i].Done => allTasks[i].CompletionDate = 0

\* C4: when ToggleDone, UpdateTaskLine or DeleteTask returns an error, the
\* record passed to it has its done, completion_date and raw_line unchanged.
C4_ErrorLeavesRecord ==
  (last.op \in LocatorOps /\ last.err # "nil") =>
    /\ last.task1.Done = last.task0.Done
    /\ last.task1.CompletionDate = last.task0.CompletionDate
    /\ last.task1.RawLine = last.task0.RawLine

\* C5: a call with a line number below 1 or above the number of lines of the
\* file fails and leaves every file as it was; the error is the out-of-range
\* error whenever the file could be read.  (The line numbers of scanned
\* records are 1 and more: the locators out of range are those past the end
\* of a file that lost lines.)
C5_OutOfRangeFails ==
  (last.op \in LocatorOps /\ last.fs0[last.task0.FilePath] # NoFile
     /\ (Addressed < 1 \/ Addressed > Len(Lines0))) =>
    /\ last.err # "nil"
    /\ WasReadable => last.err = "range"
    /\ files = last.fs0

\* ToggleDone was called with a locator past the end of a readable file and
\* failed with the out-of-range error
C5_Witness ==
  /\ last.op = "ToggleDone" /\ WasReadable /\ Addressed > Len(Lines0)
  /\ last.err = "range"

\* the pair of in-memory fields a ToggleDone call has to leave
ToggledPair(t) == (t.Done => t.CompletionDate = Today) /\ (~t.Done => t.CompletionDate = 0)

\* two successful ToggleDone calls in a row on the same record
ToggledTwice ==
  /\ last.op = "ToggleDone" /\ last.err = "nil"
  /\ last.prevOp = "ToggleDone" /\ last.prevErr = "nil" /\ last.prevIdx = last.idx

\* C6: ToggleDone applied twice in a row to a record returns done to its
\* original value; after a mark-done step the completion date is today and
\* after a mark-undone step it is unset.
C6_ToggleTwice ==
  /\ (last.op = "ToggleDone" /\ last.err = "nil") =>
       /\ last.task1.Done = ~last.task0.Done
       /\ ToggledPair(last.task1)
  /\ ToggledTwice =>
       /\ last.task1.Done = last.prevTask0.Done
       /\ ToggledPair(last.task0)

\* a record that was done was marked undone and then done again
C6_Witness ==
  /\ ToggledTwice
  /\ last.prevTask0.Done /\ last.prevTask0.CompletionDate # 0
  /\ ~last.task0.Done /\ last.task1.Done

\* the first checkbox token [x] or [X] of a line replaced by [ ]
UncheckFirst(line) ==
  LET lower == IndexFrom(line, <<"[", "x", "]">>, 1)
      upper == IndexFrom(line, <<"[", "X", "]">>, 1)
  IN IF lower # 0 /\ (upper = 0 \/ lower < upper)
     THEN ReplaceFirst(line, <<"[", "x", "]">>, <<"[", SP, "]">>)
     ELSE ReplaceFirst(line, <<"[", "X", "]">>, <<"[", SP, "]">>)

\* the line the record of the call was decoded from is still at its place
InSync ==
  /\ Addressed <= Len(Lines0)
  /\ Lines0[Addressed] = last.task0.RawLine
  /\ TaskMatch(last.task0.RawLine)
  /\ last.task0.Done = (TaskBox(last.task0.RawLine) \in {"x", "X"})

\* C7: ToggleDone on a done record changes its line only by replacing the
\* first [x]/[X] token with [ ], cutting the completion marker and trimming
\* the end; on an open record only by replacing [ ] with [x] and appending
\* the completion marker of today.  No other token of the line changes.
C7_ToggleTouchesOnlyCheckbox ==
  (last.op = "ToggleDone" /\ last.err = "nil" /\ InSync) =>
    Lines1[Addressed] =
      IF last.task0.Done
      THEN TrimRight(ReplaceAllString("doneDateRe", UncheckFirst(Lines0[Addressed])))
      ELSE ReplaceFirst(Lines0[Addressed], <<"[", SP, "]">>, <<"[", "x", "]">>)
             \o <<SP, "DONE", SP, FormatDate(Today)>>

\* ------------------------------------------------ properties of the sidebar UI

\* C2: a locator-based operation is issued only on a record set that was
\* rebuilt after the last successful mutation; a successful mutation triggers
\* a reload and a failed one triggers none
C2_ReloadBeforeLocatorOp ==
  /\ last.op \in LocatorOps => ~last.stale0
  /\ (last.op # "none" /\ last.err # "nil") => last.reload = "none"
  /\ (last.op # "none" /\ last.err = "nil") => last.reload # "none"

\* ------------------------------------------------ properties of the codec

\* the line the edit flow of the column UI (part_000) rebuilds: the encoder
\* of ui.go with the two emoji of parser.go as markers
EncodeColumns(t, value) ==
  <<"-", SP>> \o (IF t.Done THEN <<"[", "x", "]", SP>> ELSE <<"[", SP, "]", SP>>)
    \o value
    \o Flatten([k \in 1..Len(t.Tags) |-> [Tasks |-> <<SP>> \o t.Tags[k]]], 1)
    \o (IF t.DueDate # 0 THEN <<SP, "DUE", SP, FormatDate(t.DueDate)>> ELSE <<>>)
    \o (IF t.CompletionDate # 0 THEN <<SP, "DONE", SP, FormatDate(t.CompletionDate)>>
        ELSE <<>>)

\* two records agree in their structured fields
SameFields(a, b) ==
  /\ a.Description = b.Description
  /\ a.Done = b.Done
  /\ a.Tags = b.Tags
  /\ a.DueDate = b.DueDate
  /\ a.CompletionDate = b.CompletionDate

\* the record decoded from a line, at the place of record R
DecodeAt(line, R) == ParseTask(line, R.FilePath, R.LineNumber, scanIn.noteDate)

\* C11: for every record R decoded from a task line, the line that encodes R
\* (checkbox, description, tags, due marker, completion marker) is a task line
\* and decodes to a record with the description, done, tags, due date and
\* completion date of R.  The encoder is the one of ui.go.
C11_RoundTrip ==
  \A i \in 1..Len(scanOut.tasks) :
    LET R == scanOut.tasks[i]
        L == EditedLine(R, R.Description)
    IN TaskMatch(L) /\ SameFields(DecodeAt(L, R), R)

\* the same round trip with the encoder of the column UI
RoundTripColumns ==
  \A i \in 1..Len(scanOut.tasks) :
    LET R == scanOut.tasks[i]
        L == EncodeColumns(R, R.Description)
    IN TaskMatch(L) /\ SameFields(DecodeAt(L, R), R)

\* ------------------------------------------------ properties of the edit flow

\* a typed text that is a description and nothing else: no tag, no marker, no
\* space at its ends
IsPlain(text) ==
  /\ text # <<>>
  /\ Describe(text) = text
  /\ FindAllString("tagRe", text) = <<>>

\* the records of the record set at the locator of the last call
AtLocator == {i \in 1..Len(allTasks) :
                /\ allTasks[i].FilePath = last.task0.FilePath
                /\ allTasks[i].LineNumber = last.task0.LineNumber}

\* the edit flow wrote the line of a record of a fresh record set and the
\* reload after it replaced the record set
Edited ==
  /\ last.op = "UpdateTaskLine" /\ last.err = "nil" /\ last.reload = "ok"
  /\ ~last.stale0 /\ IsPlain(last.text)

\* C12: after the edit flow succeeded and the vault was reloaded, the record
\* at the edited locator has the typed text as description and the done
\* state, tags, due date and completion date the record had before the edit.
C12_EditKeepsFields ==
  Edited =>
    \E i \in AtLocator :
      /\ allTasks[i].Description = last.text
      /\ allTasks[i].Done = last.task0.Done
      /\ allTasks[i].Tags = last.task0.Tags
      /\ allTasks[i].DueDate = last.task0.DueDate
      /\ allTasks[i].CompletionDate = last.task0.CompletionDate

\* ------------------------------------------------ properties of DeleteTask

\* C13: after a successful DeleteTask on line k of a file of n lines the file
\* has n-1 lines, the lines above k are where they were and every line j
\* below k is at j-1 (so that a locator kept for it addresses the line after
\* it, or nothing).
C13_DeleteShiftsUp ==
  (last.op = "DeleteTask" /\ last.err = "nil") =>
    /\ Len(Lines1) = Len(Lines0) - 1
    /\ \A j \in 1..(Addressed - 1) : Lines1[j] = Lines0[j]
    /\ \A j \in (Addressed + 1)..Len(Lines0) : Lines1[j - 1] = Lines0[j]

\* ----------------- specification of the vault index and of the categorizer

\* the number of daily notes of a generated vault
MaxNotes == 2

TagB == <<SP, "#", "b">>
TagBSlashA == <<SP, "#", "b", "/", "a">>
TagBA == <<SP, "#", "b", "a">>

\* the daily notes of the generated vaults: a record without a tag; tags
\* that equal an excluded tag, extend it after a "/" and extend it without
\* one; overdue records with equal and with different due dates; done
\* records with and without a completion date beside an overdue one;
\* records due on two future days and today
IndexNotes ==
  { <<HeadingO, Box(SP) \o <<"a">>, Box(SP) \o <<"b">> \o TagA>>,
    <<HeadingO, Box(SP) \o <<"a">> \o TagB, Box(SP) \o <<"a">> \o TagBSlashA,
                Box(SP) \o <<"b">> \o TagBA, Box(SP) \o <<"a">> \o TagA \o TagB>>,
    <<HeadingO, Box(SP) \o <<"a">> \o TagA \o Due(Today - 1),
                Box(SP) \o <<"b">> \o TagA \o Due(Today - 1),
                Box(SP) \o <<"a">> \o TagA \o Due(Today - 2)>>,
    <<HeadingO, Box("x") \o <<"a">> \o TagA \o Completed(Today - 1),
                Box("x") \o <<"b">> \o TagA \o Due(Today + 1),
                Box("x") \o <<"b">> \o TagA \o Due(Today - 1) \o Completed(Today),
                Box(SP) \o <<"b">> \o TagA \o Due(Today - 1)>>,
    <<HeadingO, Box(SP) \o <<"a">> \o TagA \o Due(Today + 2),
                Box(SP) \o <<"b">> \o TagA \o Due(Today + 1),
                Box(SP) \o <<"a">> \o TagBA \o Due(Today + 1),
                Box(SP) \o <<"b">> \o TagA \o Due(Today)>> }

\* the days that can have a daily note: the ends and the middle of the scan
\* window, and the days next to it
NoteDays ==
  {Today - LogbookDays - 1, Today - LogbookDays, Today, Today + LookaheadDays,
   Today + LookaheadDays + 1}

\* the vaults: at most MaxNotes of these days have a daily note
IndexVaults ==
  UNION {{[d \in Dates |-> IF d \in S THEN f[d] ELSE NoFile] : f \in [S -> IndexNotes]} :
           S \in {D \in SUBSET NoteDays : Cardinality(D) <= MaxNotes}}

\* the configurations: no excluded tag, the default one, and a list of two
IndexConfigs ==
  {[DefaultConfig EXCEPT !.ExcludeTags = e] :
     e \in {<<>>, <<(<<"#", "b">>)>>, <<(<<"#", "x">>), (<<"#", "b", "/", "a">>)>>}}

\* the time zones: UTC, and one behind it
Zones == {0, 1}

\* the scan window of ScanDailyNotes
Window == (Today - LogbookDays)..(Today + LookaheadDays)

\* the faults of one scan: none, the note named by today cannot be opened,
\* or the scanner of the note named by the first day of the window fails at
\* its third line
IndexFaults ==
  {OpenFails({}), OpenFails({Today}), [OpenFails({}) EXCEPT ![Today - LogbookDays] = 3]}

\* the filter texts
IndexFilters == {<<>>, <<"b">>, <<"B">>}

InitIndex ==
  /\ files \in IndexVaults
  /\ cfg \in IndexConfigs
  /\ zone \in Zones
  /\ NewModel(<<>>)
  /\ last = NoCall
  /\ stale = FALSE
  /\ steps = 0
  /\ faults = 0
  /\ scanIn = [bad |-> OpenFails({})]
  /\ scanOut = NoScan

\* main: ScanDailyNotes, and NewModel over its records unless it failed
IndexScanDailyNotes ==
  /\ ~scanOut.ran
  /\ \E bad \in IndexFaults :
       LET sc == ScanDailyNotes(files, bad)
       IN /\ scanIn' = [bad |-> bad]
          /\ scanOut' = [ran |-> TRUE, tasks |-> sc.tasks, err |-> sc.err]
          /\ allTasks' = IF sc.err = "nil" THEN sc.tasks ELSE allTasks
          /\ views' = buildViews(allTasks', filter)
  /\ UNCHANGED <<files, cfg, zone, last, stale, steps, faults, activeView, focus,
                 sidebarCursor, contentCursor, mode, filter, input>>

\* the filter is set and buildViews runs over the records with it
IndexBuildViews ==
  /\ scanOut.ran /\ scanOut.err = "nil"
  /\ \E f \in IndexFilters :
       /\ filter' = f
       /\ views' = buildViews(allTasks, f)
  /\ UNCHANGED <<files, cfg, zone, allTasks, last, stale, steps, faults, scanVars,
                 activeView, focus, sidebarCursor, contentCursor, mode, input>>

NextIndex == IndexScanDailyNotes \/ IndexBuildViews

SpecIndex == InitIndex /\ [][NextIndex]_vars

\* ------------------------------------------- properties of the vault index

\* the scan of the vault succeeded
Scanned == scanOut.ran /\ scanOut.err = "nil"

\* the records ParseFile finds in the daily note named by day f, which the
\* scan reads for day f + zone
Parsed(f) == ParseFile(files[f], f, f + zone, SectionHeading, 0).tasks

\* the daily notes the scan reads, by the days that name them
Present == {f \in Dates : f + zone \in Window /\ files[f] # NoFile}

\* C14: a record with no tag is never among the records the vault index
\* returns, whatever the list of excluded tags is, the empty list included,
\* and so it is never among the records the categorizer works on.
C14_UntaggedNeverIndexed ==
  scanOut.ran =>
    /\ \A i \in 1..Len(scanOut.tasks) : Len(scanOut.tasks[i].Tags) > 0
    /\ \A i \in 1..Len(allTasks) : Len(allTasks[i].Tags) > 0

\* a scan with no excluded tag over a daily note that holds a record
\* without a tag, which returned other records
C14_Witness ==
  /\ Scanned
  /\ ExcludeTags = <<>>
  /\ \E d \in Present : \E i \in 1..Len(Parsed(d)) : Len(Parsed(d)[i].Tags) = 0
  /\ scanOut.tasks # <<>>
  /\ allTasks = scanOut.tasks

\* the records the scan returned
Indexed == {scanOut.tasks[i] : i \in 1..Len(scanOut.tasks)}

\* tag A is the excluded tag E, or E followed by "/" and more
Under(A, E) == A = E \/ (Len(A) > Len(E) /\ SubSeq(A, 1, Len(E) + 1) = E \o <<"/">>)

\* C15: a record with at least one tag is dropped by the vault index iff one
\* of its tags equals an excluded tag or starts with an excluded tag followed
\* by "/"; a tag that merely starts with an excluded tag is not excluded.
C15_DroppedIffUnderExcludedTag ==
  Scanned =>
    \A d \in Present :
      LET parsed == Parsed(d)
      IN \A i \in 1..Len(parsed) :
           Len(parsed[i].Tags) > 0 =>
             (parsed[i] \notin Indexed <=>
                \E a \in 1..Len(parsed[i].Tags) : \E e \in 1..Len(ExcludeTags) :
                  Under(parsed[i].Tags[a], ExcludeTags[e]))

\* with "#b" excluded, a scan that dropped a record tagged "#b/a" and one
\* tagged "#b", and returned a record tagged "#ba"
C15_Witness ==
  /\ Scanned
  /\ ExcludeTags = <<(<<"#", "b">>)>>
  /\ \E d \in Present :
       /\ \E i \in 1..Len(Parsed(d)) :
            Parsed(d)[i].Tags = <<(<<"#", "b", "/", "a">>)>> /\ Parsed(d)[i] \notin Indexed
       /\ \E i \in 1..Len(Parsed(d)) :
            Parsed(d)[i].Tags = <<(<<"#", "b">>)>> /\ Parsed(d)[i] \notin Indexed
       /\ \E i \in 1..Len(Parsed(d)) :
            Parsed(d)[i].Tags = <<(<<"#", "b", "a">>)>> /\ Parsed(d)[i] \in Indexed

\* record t is kept by the tag rules of the vault index
Kept(t) ==
  /\ Len(t.Tags) > 0
  /\ ~\E a \in 1..Len(t.Tags) : \E e \in 1..Len(ExcludeTags) :
        Under(t.Tags[a], ExcludeTags[e])

\* C16: the vault index reads the daily note of every day from today minus
\* the lookback to today plus the lookahead, each once and in ascending order
\* of the days; a day without a daily note is skipped and is no error; the
\* records returned are ordered by the day of their file and, within one
\* file, by ascending line number.
C16_WindowInOrder ==
  /\ (scanOut.ran /\ scanIn.bad = OpenFails({})) => scanOut.err = "nil"
  /\ Scanned =>
       /\ \A i \in 1..Len(scanOut.tasks) : \A j \in 1..Len(scanOut.tasks) :
            i < j =>
              \/ scanOut.tasks[i].FilePath < scanOut.tasks[j].FilePath
              \/ /\ scanOut.tasks[i].FilePath = scanOut.tasks[j].FilePath
                 /\ scanOut.tasks[i].LineNumber < scanOut.tasks[j].LineNumber
       /\ \A i \in 1..Len(scanOut.tasks) : scanOut.tasks[i].FilePath \in Window
       /\ \A d \in Window :
            LET parsed == IF files[d] = NoFile THEN <<>> ELSE Parsed(d)
            IN \A i \in 1..Len(parsed) : Kept(parsed[i]) => parsed[i] \in Indexed

\* C17: when the scan of a daily note fails, it returns no records of that
\* note together with the error, and the vault index fails as a whole: it
\* returns an error and no records, it does not skip the note.
C17_FailedNoteFailsIndex ==
  scanOut.ran =>
    \A f \in Present :
      LET pf == ParseFile(files[f], f, f + zone, SectionHeading, scanIn.bad[f])
      IN pf.err # "nil" =>
           /\ pf.tasks = <<>>
           /\ scanOut.err # "nil"
           /\ scanOut.tasks = <<>>

\* a failed note fails the vault index, which then returns no records and
\* builds no record set
FailedNoteFailsIndex ==
  scanOut.ran =>
    \A f \in Present :
      ParseFile(files[f], f, f + zone, SectionHeading, scanIn.bad[f]).err # "nil" =>
        scanOut.err # "nil" /\ scanOut.tasks = <<>> /\ allTasks = <<>>

\* ------------------------------------------- properties of the categorizer

\* the two parts of todayTasks
TodayPart == SubSeq(views.todayTasks, 1, views.overdueStart)
OverduePart == SubSeq(views.todayTasks, views.overdueStart + 1, Len(views.todayTasks))

\* the number of times index i occurs in the sequence seq
Count(seq, i) == Cardinality({k \in 1..Len(seq) : seq[k] = i})

\* the number of times index i occurs in the lists of the groups
RECURSIVE CountIn(_, _, _)
CountIn(groups, i, k) ==
  IF k > Len(groups) THEN 0
  ELSE Count(groups[k].Tasks, i) + CountIn(groups, i, k + 1)

\* the places of the views that hold the record of index i
Places(i) ==
  {<<"today", 0>> : k \in {k \in 1..Len(TodayPart) : TodayPart[k] = i}}
  \cup {<<"overdue", 0>> : k \in {k \in 1..Len(OverduePart) : OverduePart[k] = i}}
  \cup {<<"upcoming", views.upcomingGroups[g].Date>> : g \in
          {g \in 1..Len(views.upcomingGroups) : Count(views.upcomingGroups[g].Tasks, i) > 0}}
  \cup {<<"logbook", views.logbookGroups[g].Date>> : g \in
          {g \in 1..Len(views.logbookGroups) : Count(views.logbookGroups[g].Tasks, i) > 0}}

\* the number of places that hold the record of index i
Occurrences(i) ==
  Count(views.todayTasks, i) + CountIn(views.upcomingGroups, i, 1)
    + CountIn(views.logbookGroups, i, 1)

\* the place the state of record t dictates; the date of a group is the
\* calendar day its records' dates are printed as
Dictated(t) ==
  IF t.Done
  THEN <<"logbook", IF t.CompletionDate # 0 THEN t.CompletionDate ELSE DueDay(t)>>
  ELSE IF t.DueDate < Today THEN <<"overdue", 0>>
  ELSE IF t.DueDate = Today THEN <<"today", 0>>
  ELSE <<"upcoming", DueDay(t)>>

\* C18: the categorizer places every record that passes the filter in
\* exactly one place, the one its state dictates: a record that is not done
\* is overdue iff its due date is before today, of today iff it is today, and
\* in the upcoming group of its due date iff it is after today; a done record
\* is in the logbook group of its completion date whatever its due date is,
\* or of its due date when it has no completion date.
C18_PlacedAsDictated ==
  \A i \in 1..Len(allTasks) :
    IF matchesFilter(allTasks[i], filter)
    THEN Occurrences(i) = 1 /\ Places(i) = {Dictated(allTasks[i])}
    ELSE Occurrences(i) = 0

\* views built with a filter that some records do not pass, over records
\* that are overdue, of today, upcoming, done with a completion date that is
\* not the due date, and done without a completion date
C18_Witness ==
  /\ Scanned
  /\ filter # <<>>
  /\ \E i \in 1..Len(allTasks) : ~matchesFilter(allTasks[i], filter)
  /\ views.overdueStart > 0 /\ Len(views.todayTasks) > views.overdueStart
  /\ views.upcomingGroups # <<>>
  /\ \E i \in 1..Len(allTasks) :
       /\ allTasks[i].Done /\ allTasks[i].CompletionDate = 0
       /\ Occurrences(i) = 1
  /\ \E i \in 1..Len(allTasks) :
       /\ allTasks[i].Done /\ allTasks[i].CompletionDate # 0
       /\ allTasks[i].CompletionDate # allTasks[i].DueDate
       /\ Occurrences(i) = 1

\* the indices of the records that pass the filter
Passing == {i \in 1..Len(allTasks) : matchesFilter(allTasks[i], filter)}

\* the days of the upcoming records: the due dates after today of the
\* records that are not done
UpcomingDates ==
  {DueDay(allTasks[i]) : i \in {k \in Passing : ~allTasks[k].Done /\ allTasks[k].DueDate > Today}}

\* the completion dates of the done records
CompletionDates == {allTasks[i].CompletionDate : i \in {k \in Passing : allTasks[k].Done}}

\* the days of the logbook: the completion date of a done record, its due
\* date when it has none
LogbookDates ==
  {(IF allTasks[i].CompletionDate # 0 THEN allTasks[i].CompletionDate
    ELSE DueDay(allTasks[i])) : i \in {k \in Passing : allTasks[k].Done}}

\* the groups are one per day of days
OnePerDay(groups, days) ==
  /\ Len(groups) = Cardinality(days)
  /\ {groups[g].Date : g \in 1..Len(groups)} = days

StrictlyAscending(groups) ==
  \A g \in 1..(Len(groups) - 1) : groups[g].Date < groups[g + 1].Date

StrictlyDescending(groups) ==
  \A g \in 1..(Len(groups) - 1) : groups[g].Date > groups[g + 1].Date

\* C19 as stated: there is exactly one upcoming group per distinct future due
\* date, in strictly ascending order of the dates, and exactly one logbook
\* group per distinct completion date, in strictly descending order.
C19_OneGroupPerCompletionDate ==
  /\ OnePerDay(views.upcomingGroups, UpcomingDates)
  /\ StrictlyAscending(views.upcomingGroups)
  /\ OnePerDay(views.logbookGroups, CompletionDates)
  /\ StrictlyDescending(views.logbookGroups)

\* C19, amended: there is exactly one upcoming group per distinct future due
\* date, in strictly ascending order of the dates, and exactly one logbook
\* group per distinct logbook date, in strictly descending order, where the
\* logbook date of a done record is its completion date, or its due date
\* when it has no completion date.
C19_OneGroupPerLogbookDate ==
  /\ OnePerDay(views.upcomingGroups, UpcomingDates)
  /\ StrictlyAscending(views.upcomingGroups)
  /\ OnePerDay(views.logbookGroups, LogbookDates)
  /\ StrictlyDescending(views.logbookGroups)

\* views with two upcoming groups, one of them of two records, and with
\* three logbook groups, one of them of a record without a completion date
C19_Witness ==
  /\ Scanned
  /\ Len(views.upcomingGroups) = 2
  /\ \E g \in 1..2 : Len(views.upcomingGroups[g].Tasks) = 2
  /\ Len(views.logbookGroups) = 3
  /\ \E g \in 1..3 : \E k \in 1..Len(views.logbookGroups[g].Tasks) :
       allTasks[views.logbookGroups[g].Tasks[k]].CompletionDate = 0

\* the overdue part of todayTasks is in ascending order of the due dates
OverdueAscending ==
  \A p \in 1..Len(OverduePart) : \A q \in 1..Len(OverduePart) :
    p < q => allTasks[OverduePart[p]].DueDate <= allTasks[OverduePart[q]].DueDate

\* C20: the overdue records are sorted by ascending due date and the sort is
\* stable: two overdue records with the same due date are in the order they
\* have in the record set.
C20_OverdueSortedStable ==
  /\ OverdueAscending
  /\ \A p \in 1..Len(OverduePart) : \A q \in 1..Len(OverduePart) :
       (p < q /\ allTasks[OverduePart[p]].DueDate = allTasks[OverduePart[q]].DueDate)
         => OverduePart[p] < OverduePart[q]

\* ---------------------------------------------------------------------
\* Properties of the content cursor

\* C21: in every reachable state of the UI the content cursor is 0 when the
\* active view has no records and otherwise 0 <= cursor < number of records
\* of the active view, and every index the view holds is an index of the
\* record set, so the selected record always exists.
C21_CursorInActiveView ==
  /\ IF Len(ViewTasks) = 0 THEN contentCursor = 0
     ELSE 0 <= contentCursor /\ contentCursor < Len(ViewTasks)
  /\ \A k \in 1..Len(ViewTasks) : ViewTasks[k] \in 1..Len(allTasks)
  /\ Len(ViewTasks) > 0 => selectedTask \in 1..Len(allTasks)

\* the last record of the active view was deleted and the reload left the
\* cursor on the record that is now the last one
C21_Witness ==
  /\ last.op = "DeleteTask" /\ last.err = "nil" /\ last.reload = "ok"
  /\ Len(ViewTasks) >= 1
  /\ contentCursor = Len(ViewTasks) - 1
  /\ \A k \in 1..Len(ViewTasks) :
       \/ allTasks[ViewTasks[k]].FilePath < last.task0.FilePath
       \/ /\ allTasks[ViewTasks[k]].FilePath = last.task0.FilePath
          /\ allTasks[ViewTasks[k]].LineNumber < last.task0.LineNumber

\* ---------------------------------------------------------------------
\* Properties of CreateTask

\* the last call was a successful CreateTask for a day that had no note
CreatedFile ==
  last.op = "CreateTask" /\ last.err = "nil" /\ last.fs0[last.due] = NoFile

\* the line "- [ ] <description> DUE <date>"
NewLine(description, dueDate) ==
  <<"-", SP, "[", SP, "]", SP>> \o description \o <<SP, "DUE", SP, DateStr[dueDate]>>

\* C22: CreateTask for a day without a daily note creates the note with the
\* new-file template: it holds the configured section heading and exactly one
\* task line, that line is not done and is "- [ ] <description> DUE <date>"
\* for the description and the date given, and ParseFile with the same
\* section heading returns exactly the record of that line.
C22_CreatesFromTemplate ==
  CreatedFile =>
    LET lines == readLines(files[last.due])
        line == NewLine(last.text, last.due)
        pf == ParseFile(files[last.due], last.due, last.due, SectionHeading, 0)
    IN /\ lines = << <<"-", "-", "-">>, <<"created:", SP, DateStr[last.due]>>,
                     <<"-", "-", "-">>, <<>>, SectionHeading, <<>>, line, <<>>,
                     <<"-", "-", "-">> >>
       /\ Cardinality({i \in 1..Len(lines) : TaskMatch(lines[i])}) = 1
       /\ pf.err = "nil" /\ Len(pf.tasks) = 1
       /\ pf.tasks[1].RawLine = line
       /\ lines[pf.tasks[1].LineNumber] = line
       /\ ~pf.tasks[1].Done
       /\ pf.tasks[1].DueDate = last.due
       /\ \A d \in Dates \ {last.due} : files[d] = last.fs0[d]

\* a note was created for tomorrow under a section heading that is not empty
C22_Witness ==
  /\ CreatedFile /\ last.due = Today + 1 /\ SectionHeading # <<>>
  /\ files[Today + 1] # NoFile

\* the last call was a successful CreateTask for a day that had a note
InsertedLine ==
  last.op = "CreateTask" /\ last.err = "nil" /\ last.fs0[last.due] # NoFile

\* a line of blanks only
IsBlank(l) == TrimSpace(l) = <<>>

\* new is old with `line` put in behind the first line that satisfies IsHead
\* and the blank lines that follow it: the lines before stay, the lines from
\* the insertion point on move down by one.  When no line satisfies IsHead,
\* new is old followed by a blank line, the heading, a blank line and `line`.
InsertedBehind(old, new, line, heads) ==
  IF heads = {}
  THEN /\ Len(new) = Len(old) + 4
       /\ \A j \in 1..Len(old) : new[j] = old[j]
       /\ new[Len(old) + 1] = <<>> /\ new[Len(old) + 2] = SectionHeading
       /\ new[Len(old) + 3] = <<>> /\ new[Len(old) + 4] = line
  ELSE \E h \in heads : \E k \in h..Len(old) :
         /\ \A g \in heads : h <= g
         /\ \A j \in (h + 1)..k : IsBlank(old[j])
         /\ k < Len(old) => ~IsBlank(old[k + 1])
         /\ Len(new) = Len(old) + 1
         /\ \A j \in 1..k : new[j] = old[j]
         /\ new[k + 1] = line
         /\ \A j \in (k + 1)..Len(old) : new[j + 1] = old[j]

\* C23 as stated: CreateTask on an existing file inserts the new line behind
\* the first line equal to the section heading and the blank lines that
\* follow it, or appends a blank line, the heading, a blank line and the new
\* line when no line equals the heading; every other line is kept, in order.
C23_InsertsBehindEqualLine ==
  InsertedLine =>
    LET old == readLines(last.fs0[last.due])
    IN InsertedBehind(old, readLines(files[last.due]), NewLine(last.text, last.due),
                      {i \in 1..Len(old) : old[i] = SectionHeading})

\* C23, amended: the heading line is the first line that equals the section
\* heading once the blanks around it are trimmed away; the rest as stated.
C23_InsertsBehindTrimmedHeading ==
  InsertedLine =>
    LET old == readLines(last.fs0[last.due])
    IN /\ InsertedBehind(old, readLines(files[last.due]), NewLine(last.text, last.due),
                         {i \in 1..Len(old) : TrimSpace(old[i]) = SectionHeading})
       /\ \A d \in Dates \ {last.due} : files[d] = last.fs0[d]

\* the new line was put in behind a heading line and two blank lines, in front
\* of a task line that moved down by one
C23_Witness ==
  /\ InsertedLine /\ SectionHeading # <<>>
  /\ LET old == readLines(last.fs0[last.due])
         new == readLines(files[last.due])
     IN /\ Len(old) = 4 /\ Len(new) = 5
        /\ TrimSpace(old[1]) = SectionHeading /\ IsBlank(old[2]) /\ IsBlank(old[3])
        /\ new[4] = NewLine(last.text, last.due)
        /\ new[5] = old[4]

\* ---------------------------------------------------------------------
\* Properties of DeleteTask in the UI

\* the records ScanDailyNotes makes of the tasks ParseFile finds in one note
Listed(tasks) == SelectSeq(tasks, Kept)

\* the record t as it is scanned once line k has left the file
MovedUp(t, k) == [t EXCEPT !.LineNumber = IF @ > k THEN @ - 1 ELSE @]

\* the last call was a successful DeleteTask whose locator addressed a task
\* line of the file
DeletedTaskLine ==
  /\ last.op = "DeleteTask" /\ last.err = "nil"
  /\ TaskMatch(Lines0[Addressed])

\* C24: a successful DeleteTask on a task line leaves every line that is the
\* section heading in the file as it was; when the reload that follows has
\* rebuilt the index, the records of that file are the records it had before
\* without the one of the deleted line (those below it one line higher), and
\* none at all when the deleted line was the only task line of the section.
C24_DeleteKeepsHeading ==
  DeletedTaskLine =>
    LET f == last.task0.FilePath
        before == ParseFile(last.fs0[f], f, f + zone, SectionHeading, 0).tasks
        rest == SelectSeq(before, LAMBDA t : t.LineNumber # Addressed)
        now == SelectSeq(allTasks, LAMBDA t : t.FilePath = f)
    IN /\ \A j \in 1..Len(Lines0) :
            TrimSpace(Lines0[j]) = SectionHeading =>
              /\ j # Addressed
              /\ j < Addressed => Lines1[j] = Lines0[j]
              /\ j > Addressed => Lines1[j - 1] = Lines0[j]
       /\ last.reload = "ok" =>
            /\ now = Listed([i \in 1..Len(rest) |-> MovedUp(rest[i], Addressed)])
            /\ rest = <<>> => now = <<>>

\* the only task line of the section of a note was deleted, the heading is
\* still the first line of the note and the index has no record of the note
C24_Witness ==
  /\ DeletedTaskLine /\ last.reload = "ok"
  /\ Len(ParseFile(last.fs0[last.task0.FilePath], last.task0.FilePath,
                   last.task0.FilePath, SectionHeading, 0).tasks) = 1
  /\ Lines1[1] = SectionHeading
  /\ \A i \in 1..Len(allTasks) : allTasks[i].FilePath # last.task0.FilePath

\* ---------------------------------------------------------------------
\* Properties of the line numbers

\* C25: every record of a successful scan has as line number the position,
\* counted from 1 over all lines, of its source line in the file, and the
\* line readLines finds at that position is the raw line of the record.
C25_LineNumberIsPhysical ==
  Scanned =>
    \A i \in 1..Len(scanOut.tasks) :
      LET lines == readLines(scanIn.content)
          R == scanOut.tasks[i]
      IN /\ R.LineNumber \in 1..Len(lines)
         /\ lines[R.LineNumber] = R.RawLine

\* ---------------------------------------------------------------------
\* Properties of the keys

\* C26: with the focus on the content pane the key d toggles the selected
\* task whichever way it stands: whenever a task of the active view is
\* selected, done or not done, pressing d calls ToggleDone on it.
C26_ToggleBothDirections ==
  (mode = modeNormal /\ focus = focusContent /\ selectedTask # 0 /\ steps < MaxSteps)
    => CanToggle

\* ---------------------------------------------------------------------
\* Properties of the new-task flow

\* the dates of the due markers of a typed text that are calendar dates
TypedDates(value) ==
  LET ms == FindAll("dueDateRe", value, 1)
  IN {ParseDate(value[ms[k][2]]) : k \in 1..Len(ms)} \ {0}

\* the note of day d holds the line of a new task with this text and due date
Written(d, text, due) ==
  /\ files[d] # NoFile
  /\ \E j \in 1..Len(readLines(files[d])) : readLines(files[d])[j] = NewLine(text, due)

\* C27: a new task typed without a due marker is created with the due date
\* today and written to the note of today; a new task typed with a valid due
\* marker is created with that date, written to the note of that date, and
\* its description is the typed text without the marker.
C27_NewTaskDueDate ==
  (last.op = "CreateTask" /\ last.err = "nil") =>
    /\ FindAll("dueDateRe", last.text, 1) = <<>> =>
         /\ last.due = Today
         /\ Written(Today, last.text, Today)
    /\ \A d \in TypedDates(last.text) :
         /\ last.due = d
         /\ Written(d, TrimSpace(ReplaceAllString("dueDateRe", last.text)), d)

\* ---------------------------------------------------------------------
\* Properties of the filter

\* two characters that are the same letter, in either case
SameLetter(c, d) ==
  c = d \/ {c, d} \in {{"a", "A"}, {"b", "B"}, {"x", "X"}, {"o", "O"}, {"p", "P"}}

\* sub occurs in s when the case of the letters is ignored
ContainedIn(sub, s) ==
  \E k \in 0..(Len(s) - Len(sub)) : \A j \in 1..Len(sub) : SameLetter(s[k + j], sub[j])

\* a record passes the filter text
PassesFilter(t, flt) ==
  \/ flt = <<>>
  \/ ContainedIn(flt, t.Description)
  \/ \E a \in 1..Len(t.Tags) : ContainedIn(flt, t.Tags[a])

\* C28: a record passes the filter iff the filter text is empty or is
\* contained, the case of the letters ignored, in its description or in one
\* of its tags; a record that passes is in a bucket or group of the views and
\* a record that does not pass is in none.
C28_FilterByTextOrTag ==
  \A i \in 1..Len(allTasks) :
    /\ matchesFilter(allTasks[i], filter) <=> PassesFilter(allTasks[i], filter)
    /\ Occurrences(i) > 0 <=> PassesFilter(allTasks[i], filter)

\* views built with a filter in upper case over a record that passes by its
\* description only, one that passes by a tag only and one that does not pass
C28_Witness ==
  /\ Scanned /\ filter = <<"B">>
  /\ \E i \in 1..Len(allTasks) :
       /\ ContainedIn(filter, allTasks[i].Description)
       /\ \A a \in 1..Len(allTasks[i].Tags) : ~ContainedIn(filter, allTasks[i].Tags[a])
       /\ Occurrences(i) = 1
  /\ \E i \in 1..Len(allTasks) :
       /\ ~ContainedIn(filter, allTasks[i].Description)
       /\ \E a \in 1..Len(allTasks[i].Tags) : ContainedIn(filter, allTasks[i].Tags[a])
       /\ Occurrences(i) = 1
  /\ \E i \in 1..Len(allTasks) :
       ~PassesFilter(allTasks[i], filter) /\ Occurrences(i) = 0

\* ---------------------------------------------------------------------
\* Properties of the task pattern

\* the records the scan made of line n of the note
DecodedAt(n) == {i \in 1..Len(scanOut.tasks) : scanOut.tasks[i].LineNumber = n}

\* s begins with a dash, one character of the set between, and a checkbox
BeginsWithBox(s, between) ==
  /\ Len(s) >= 5
  /\ s[1] = "-" /\ s[2] \in between /\ s[3] = "[" /\ s[4] \in {SP, "x", "X"} /\ s[5] = "]"

\* every line of the note is decoded iff it begins, the leading white
\* characters stripped, with a dash, a character of the set and a checkbox;
\* the record is done exactly when the checkbox holds x or X
DecodedIffBox(between) ==
  (scanOut.ran /\ scanIn.heading = <<>>) =>
    \A n \in 1..Len(ScannerLines(scanIn.content)) :
      LET s == TrimLeft(ScannerLines(scanIn.content)[n])
      IN IF BeginsWithBox(s, between)
         THEN /\ Cardinality(DecodedAt(n)) = 1
              /\ \A i \in DecodedAt(n) : scanOut.tasks[i].Done <=> s[4] \in {"x", "X"}
         ELSE DecodedAt(n) = {}

MatchedPositions(s) ==
  UNION {{p \in 1..Len(s) : \E k \in 1..Len(FindAll(re, s, 1)) :
            FindAll(re, s, 1)[k][1] <= p /\ p <= FindAll(re, s, 1)[k][2]}
         : re \in {"tagRe", "dueDateRe", "doneDateRe"}}

\* s without the characters at the positions of the set gone, from i on
RECURSIVE Without(_, _, _)
Without(s, gone, i) ==
  IF i > Len(s) THEN <<>>
  ELSE (IF i \in gone THEN <<>> ELSE <<s[i]>>) \o Without(s, gone, i + 1)

\* C30: the description of every record is the rest of its line without the
\* matches the tag pattern and the two marker patterns have in that rest,
\* trimmed: no other text is gone from it, in whatever order the three
\* classes of matches are cut.
C30_DescriptionCutsMatchesOnly ==
  scanOut.ran =>
    \A i \in 1..Len(scanOut.tasks) :
      LET rest == TaskRest(scanOut.tasks[i].RawLine)
      IN scanOut.tasks[i].Description
           = TrimSpace(Without(rest, MatchedPositions(rest), 1))

\* ---------------------------------------------------------------------
\* Properties of the modes

\* the step calls the mutator op
Calls(op) == steps' = steps + 1 /\ last'.op = op

\* C31: DeleteTask is called only by a step taken in the confirm-delete
\* mode; that mode is entered only from the normal mode with the focus on
\* the content pane, a task selected and a view other than the Logbook; a
\* step in the confirm-delete mode that does not call DeleteTask writes no
\* file and changes no record, and ends in the normal mode.
C31_DeleteOnlyAfterConfirm ==
  [][ /\ Calls("DeleteTask") => mode = modeConfirmDelete /\ mode' = modeNormal
      /\ (mode # modeConfirmDelete /\ mode' = modeConfirmDelete) =>
           /\ mode = modeNormal /\ focus = focusContent
           /\ activeView # viewLogbook /\ selectedTask # 0
      /\ (mode = modeConfirmDelete /\ ~Calls("DeleteTask")) =>
           /\ files' = files /\ allTasks' = allTasks /\ last' = last
           /\ mode' = modeNormal ]_vars

\* a task was deleted on confirmation, and the UI is back in the normal mode
C31_Witness ==
  /\ last.op = "DeleteTask" /\ last.err = "nil" /\ mode = modeNormal
  /\ files # last.fs0

\* ---------------------------------------------------------------------
\* Properties of the new task in the record set

\* the last call was a successful CreateTask and the reload behind it
\* rebuilt the record set
CreatedAndReloaded ==
  last.op = "CreateTask" /\ last.err = "nil" /\ last.reload = "ok"

\* the description the new-task flow handed to CreateTask
CreatedText == NewTaskText(last.text)

\* the record set holds a record of the line CreateTask wrote
CreatedShown ==
  \E i \in 1..Len(allTasks) :
    /\ allTasks[i].FilePath = last.due
    /\ allTasks[i].RawLine = NewLine(CreatedText, last.due)

\* C32: after a successful CreateTask and the reload that follows, the line
\* is in the note of the due date, and the record set holds a record of it
\* iff the description has a tag, none of its tags is excluded and the due
\* date lies in the window of the scan; a task created without a tag is
\* written and not shown.
C32_CreatedShownIffIndexed ==
  CreatedAndReloaded =>
    LET tags == FindAllString("tagRe", CreatedText)
    IN /\ Written(last.due, CreatedText, last.due)
       /\ CreatedShown <=>
            /\ Len(tags) > 0
            /\ \A a \in 1..Len(tags) : \A e \in 1..Len(ExcludeTags) :
                 ~Under(tags[a], ExcludeTags[e])
            /\ last.due \in Window

\* a task without a tag was created: its line is in the note of today and
\* the record set has no record of it
C32_Witness ==
  /\ CreatedAndReloaded
  /\ FindAllString("tagRe", CreatedText) = <<>>
  /\ Written(Today, CreatedText, Today)
  /\ ~CreatedShown

\* ---------------------------------------------------------------------
\* Properties of the views in the UI

\* the indices the views hold
ViewIndices ==
  {views.todayTasks[k] : k \in 1..Len(views.todayTasks)}
  \cup UNION {{views.upcomingGroups[g].Tasks[k] : k \in 1..Len(views.upcomingGroups[g].Tasks)}
              : g \in 1..Len(views.upcomingGroups)}
  \cup UNION {{views.logbookGroups[g].Tasks[k] : k \in 1..Len(views.logbookGroups[g].Tasks)}
              : g \in 1..Len(views.logbookGroups)}

\* C33: in every reachable state of the UI, also after a reload that failed,
\* every index of the today list, the upcoming groups and the logbook groups
\* is an index of the record set, every record that passes the filter is
\* held exactly once, and overdueStart is the number of entries due today at
\* the front of the today list.
C33_ViewsIndexRecordSet ==
  /\ ViewIndices \subseteq 1..Len(allTasks)
  /\ \A i \in 1..Len(allTasks) :
       PassesFilter(allTasks[i], filter) => Occurrences(i) = 1
  /\ views.overdueStart \in 0..Len(views.todayTasks)
  /\ \A k \in 1..Len(views.todayTasks) :
       k <= views.overdueStart <=> allTasks[views.todayTasks[k]].DueDate = Today

\* the reload behind a successful ToggleDone failed: the views are the old
\* ones and hold the record that is now done in the today list
C33_Witness ==
  /\ last.op = "ToggleDone" /\ last.err = "nil" /\ last.reload = "failed"
  /\ allTasks[last.idx].Done
  /\ Count(views.todayTasks, last.idx) = 1
  /\ views.overdueStart > 0 /\ views.overdueStart < Len(views.todayTasks)

\* C34: a step taken while the Logbook is the active view calls none of
\* ToggleDone, DeleteTask, UpdateTaskLine and CreateTask, writes no file and
\* does not enter the new-task, the edit or the confirm-delete mode.
C34_LogbookIsReadOnly ==
  [][ activeView = viewLogbook =>
        /\ steps' = steps /\ last' = last
        /\ files' = files
        /\ mode' \notin {modeNewTask, modeEditTask, modeConfirmDelete} ]_vars

\* the Logbook is the active view, the focus is on the content pane and a
\* done task is selected
C34_Witness ==
  /\ activeView = viewLogbook /\ mode = modeNormal /\ focus = focusContent
  /\ selectedTask # 0 /\ allTasks[selectedTask].Done

\* the step calls a mutator
CallsAny == steps' = steps + 1

\* C35: a step taken in the edit or the confirm-delete mode leaves the active
\* view and the filter as they are, and while the mode lasts also the content
\* cursor, the record set, the views and the files; the mutator called on
\* confirmation is called on the record selected in that mode; a step that
\* calls no mutator, as esc and enter on an empty input, writes no file.
C35_ModeKeepsSelection ==
  [][ (mode \in {modeEditTask, modeConfirmDelete}) =>
        ( /\ activeView' = activeView /\ filter' = filter
          /\ (mode' = mode) =>
               /\ contentCursor' = contentCursor /\ allTasks' = allTasks
               /\ views' = views /\ files' = files
          /\ CallsAny =>
               /\ last'.op = IF mode = modeEditTask THEN "UpdateTaskLine" ELSE "DeleteTask"
               /\ selectedTask # 0
               /\ last'.idx = selectedTask
               /\ last'.task0 = allTasks[selectedTask]
          /\ (~CallsAny) => (files' = files /\ allTasks' = allTasks)
          /\ (mode = modeEditTask /\ input = <<>>) => (~CallsAny) ) ]_vars

\* the edit of a selected record other than the first of its view was
\* confirmed and the line was written
C35_Witness ==
  /\ last.op = "UpdateTaskLine" /\ last.err = "nil" /\ mode = modeNormal
  /\ last.idx # 0 /\ files # last.fs0

\* the last call marked done a record that was in step with its line: a task
\* line with an empty checkbox, no completion marker and no trailing space,
\* in a file that ends with a newline
MarkedDonePlainLine ==
  /\ last.op = "ToggleDone" /\ last.err = "nil" /\ InSync /\ ~last.task0.Done
  /\ FindAllString("doneDateRe", Lines0[Addressed]) = <<>>
  /\ TrimRight(Lines0[Addressed]) = Lines0[Addressed]
  /\ Len(last.fs0[last.task0.FilePath]) >= 2
  /\ last.fs0[last.task0.FilePath][Len(last.fs0[last.task0.FilePath])] = <<>>

\* the step is a successful ToggleDone call on the record of the last call
TogglesAgain ==
  /\ steps' = steps + 1 /\ last'.op = "ToggleDone" /\ last'.err = "nil"
  /\ last'.idx = last.idx

\* C36: marking done a not-done task line without completion marker and
\* trailing spaces, in a file ending with a newline, and marking the same
\* record undone in the next call gives back the content the file had before
\* the two calls.
C36_ToggleTwiceRestoresFile ==
  [][ (MarkedDonePlainLine /\ TogglesAgain) => files' = last.fs0 ]_vars

\* C37: in every reachable state of the sidebar UI the sidebar cursor is the
\* active view, and both are one of the three views 0, 1 and 2.
C37_SidebarCursorIsActiveView ==
  /\ sidebarCursor = activeView
  /\ activeView \in {viewToday, viewUpcoming, viewLogbook}
  /\ {viewToday, viewUpcoming, viewLogbook} = 0..2

\* after a mutator call the sidebar has the focus again and its cursor is on
\* the second view, the active one
C37_Witness ==
  /\ sidebarCursor = 1 /\ activeView = viewUpcoming /\ focus = focusSidebar
  /\ mode = modeNormal /\ steps > 0

====
